---------------------------- MODULE Spec2Model ----------------------------
(***************************************************************************)
(* Verification model of the novel-splitter backend (src-tauri).           *)
(*                                                                         *)
(* Several subsystems are modelled, each with its own specification:       *)
(*   SpecSse      - ai.rs: the SSE relay of stream_analysis                *)
(*   SpecPipeline - lib.rs / spiders/qidian.rs: the per-novel flow         *)
(*   SpecBrowser  - browser_spider.rs: fetch_via_window called from the    *)
(*                  detached tasks that the UI commands spawn              *)
(*   SpecScan     - lib.rs: scan_and_download_rank, the batch driver       *)
(*   SpecInfo     - lib.rs: info.json of one novel directory, written by   *)
(*                  the per-novel flow and by update_novel_metadata        *)
(*   SpecEndpoint - ai.rs: the request URLs that stream_analysis and       *)
(*                  fetch_models build from the configured api_base        *)
(*   SpecRankList - spiders/qidian.rs: fetch_rank_list, and the targets    *)
(*                  the batch driver takes from its result                 *)
(*   SpecScript   - browser_spider.rs: the initialization script of a page *)
(*   SpecUiFlows  - lib.rs: per-novel flows running side by side           *)
(*   SpecTermination - lib.rs: the per-novel flow and the batch driver     *)
(*                  under fairness                                         *)
(* A specification leaves the variables of the other subsystems at their   *)
(* idle values.                                                            *)
(***************************************************************************)
EXTENDS Integers, Sequences, FiniteSets, TLC

VARIABLES
    \* ---- ai.rs: stream_analysis ----
    sseStream,      \* the response body, a sequence of bytes (fixed per run)
    ssePos,         \* number of bytes of sseStream already delivered by the network
    buffer,         \* ai.rs:77 `buffer`, a String: sequence of chars
    ssePc,          \* position of stream_analysis
    sseEvents       \* events emitted to the UI, in order

sseVars == <<sseStream, ssePos, buffer, ssePc, sseEvents>>

VARIABLES
    \* ---- lib.rs: process_novel_download and its caller ----
    platform,               \* input: the platform tag
    url,                    \* input: the novel URL
    chapter_count,          \* input: the requested number of chapters
    is_batch,               \* input: called by the batch driver
    mobileSite,             \* what the mobile site answers to GET /book/<id>
    invocation,             \* 1 for the first run of the flow, 2 for the repeated run
    flowPc,                 \* position of the flow
    atStart,                \* what was there when the run started: the numbers of
                            \* events and log lines, the chapter files, and the
                            \* directory and batch of the run before
    lastPage,               \* outcome of the browser metadata fetch of this run
    lastCatalog,            \* outcome of the catalog fetch of this run
    chapters,               \* lib.rs:398 `chapters`, the result of the list fetch
    failed,                 \* ordinals whose download attempts all failed
    writeFailed,            \* ordinals whose file write failed
    metadata_result,        \* lib.rs:355 `metadata_result`
    safe_title,             \* lib.rs:380 `safe_title`
    chapters_to_download,   \* lib.rs:432 `chapters_to_download`
    chapterIdx,             \* lib.rs:453 `i`
    attempt,                \* lib.rs:484 `attempt`
    downloaded_count,       \* lib.rs:450
    skipped_count,          \* lib.rs:451
    downloadCalls,          \* download_chapter calls made by the current run
    fsDirs,                 \* novel directories below the base directory
    fsInfo,                 \* info.json of each novel directory that has one
    fsFiles,                \* chapter files: <<directory, file name>> -> content
    events,                 \* `download-progress` events, in order
    flowLog                 \* lines appended by log_to_file_with_root, in order

flowIn == <<platform, url, chapter_count, is_batch, mobileSite>>
flowLocals == <<atStart, lastPage, lastCatalog, chapters, failed, writeFailed,
                metadata_result,
                safe_title, chapters_to_download, chapterIdx, attempt,
                downloaded_count, skipped_count, downloadCalls>>
fsVars == <<fsDirs, fsInfo, fsFiles>>
pipeVars == <<flowIn, invocation, flowPc, flowLocals, fsVars, events, flowLog>>

VARIABLES
    \* ---- browser_spider.rs: fetch_via_window, called by the spawned tasks ----
    taskPc,         \* position of each task
    callsMade,      \* number of fetch_via_window calls started so far
    call,           \* per task: the number of its current (or last) call
    chan,           \* per task: the oneshot channel of its current call
    result,         \* per task: what its last call returned
    built,          \* per task: the window its current (or last) call built, 0 if none
    closedOld,      \* per task: the window its current (or last) call closed
                    \* on entry, 0 if none
    elapsed,        \* per task: ticks of the 45-second timer of its current
                    \* (or last) call that have passed
    windows,        \* the webview windows that exist
    listeners       \* the `spider_response` listeners that are registered

browserVars == <<taskPc, callsMade, call, chan, result, built, closedOld,
                 elapsed, windows, listeners>>

VARIABLES
    \* ---- lib.rs: scan_and_download_rank, the batch driver ----
    rank_platform,  \* input: the platform tag
    max_novels,     \* input
    novel_links_res,\* lib.rs:599 `novel_links_res`, the result of the rank fetch
    target_links,   \* lib.rs:607 `target_links`
    rankIdx,        \* lib.rs:614 `idx`: novels of target_links that are done
    scanPc,         \* position of the driver
    flowCalls,      \* the URLs process_novel_download was invoked with, in order
    flowResults,    \* whether each of these calls returned Ok, in order
    scanEvents,     \* `download-progress` events, in order
    scanLog         \* lines appended to the log file, in order

scanVars == <<rank_platform, max_novels, novel_links_res, target_links, rankIdx,
              scanPc, flowCalls, flowResults, scanEvents, scanLog>>

VARIABLES
    \* ---- lib.rs: info.json of one novel directory ----
    preserve_order, \* whether the JSON object map of the build keeps insertion
                    \* order (serde_json `preserve_order`) or key order
    infoFile,       \* info.json: whether it exists, and its text
    infoCall        \* the last operation on info.json: what it was given, what
                    \* it returned, and the file it found

infoVars == <<preserve_order, infoFile, infoCall>>

VARIABLES
    \* ---- ai.rs: the request URLs ----
    api_base,       \* input: config.api_base, a string
    post_url,       \* ai.rs:50 `url` of stream_analysis, once it is built
    models_url      \* ai.rs:130 `url` of fetch_models, once it is built

endpointVars == <<api_base, post_url, models_url>>

VARIABLES
    \* ---- qidian.rs: fetch_rank_list, and what the batch driver takes ----
    rankMobile,     \* input: whether the rank URL contains "m.qidian.com"
    rankAnchors,    \* the href values of the anchors the selector matches on
                    \* the rank page, in document order
    rankMax,        \* input: max_novels of the batch driver
    parsedLinks,    \* qidian.rs:70 `links`, once fetch_rank_list returned
    takenLinks      \* lib.rs:607 `target_links`, once the driver took them

rankListVars == <<rankMobile, rankAnchors, rankMax, parsedLinks, takenLinks>>

VARIABLES
    \* ---- browser_spider.rs: the initialization script of one page load ----
    readyAtStart,   \* input: document.readyState is `complete` or `interactive`
                    \* when the script starts
    scriptPc,       \* position of the script
    probeClock,     \* seconds since the script started
    probe,          \* the run of checkAndSend: whether and when it ran, and
                    \* whether it found a signal element
    timers,         \* the setTimeout(emitOnce, ..) timers that are pending, each
                    \* given by the second at which it is due
    sent,           \* browser_spider.rs:48 `sent`
    emits           \* the seconds at which `spider_response` was emitted

scriptVars == <<readyAtStart, scriptPc, probeClock, probe, timers, sent, emits>>

VARIABLES
    \* ---- lib.rs: per-novel flows that the UI started, running side by side ----
    uiFlow,         \* per flow: its position, its novel directory, its URL,
                    \* the index `i` of its chapter loop, the flows that had
                    \* returned when it started and the ordinals it wrote
    sharedFiles     \* the files under the base directory

uiFlowVars == <<uiFlow, sharedFiles>>

vars == <<sseVars, pipeVars, browserVars, scanVars, infoVars, endpointVars, rankListVars, scriptVars, uiFlowVars>>

\* what the actions of one subsystem leave alone
notSse == <<pipeVars, browserVars, scanVars, infoVars, endpointVars, rankListVars, scriptVars, uiFlowVars>>
notPipe == <<sseVars, browserVars, scanVars, infoVars, endpointVars, rankListVars, scriptVars, uiFlowVars>>
notBrowser == <<sseVars, pipeVars, scanVars, infoVars, endpointVars, rankListVars, scriptVars, uiFlowVars>>
notScan == <<sseVars, pipeVars, browserVars, infoVars, endpointVars, rankListVars, scriptVars, uiFlowVars>>
notInfo == <<sseVars, pipeVars, browserVars, scanVars, endpointVars, rankListVars, scriptVars, uiFlowVars>>
notEndpoint == <<sseVars, pipeVars, browserVars, scanVars, infoVars, rankListVars, scriptVars, uiFlowVars>>
notRankList == <<sseVars, pipeVars, browserVars, scanVars, infoVars, endpointVars, scriptVars, uiFlowVars>>
notScript == <<sseVars, pipeVars, browserVars, scanVars, infoVars, endpointVars, rankListVars, uiFlowVars>>
notUiFlow == <<sseVars, pipeVars, browserVars, scanVars, infoVars, endpointVars, rankListVars, scriptVars>>

(***************************************************************************)
(* Bounds                                                                  *)
(***************************************************************************)
MaxRecords == 3     \* SSE records per response body
MaxChapters == 2    \* largest chapter_count a command asks for
MaxTasks == 2       \* commands the UI starts
MaxCalls == 2       \* fetch_via_window calls made by all tasks together
TimeoutTicks == 2   \* clock ticks that make up the 45 seconds of the timer
MaxRank == 2        \* novels on a rank list
MaxPatch == 1       \* keys of a patch object given to update_novel_metadata
MaxPieces == 4      \* pieces an api_base is put together from
MaxAnchors == 3     \* matching anchors on a rank page
MaxDomDelay == 9    \* last second at which DOMContentLoaded may fire
MaxFlows == 2       \* flows the UI starts

(***************************************************************************)
(* Generic helpers                                                         *)
(***************************************************************************)
RECURSIVE Flatten(_)
Flatten(ss) == IF ss = <<>> THEN <<>> ELSE Head(ss) \o Flatten(Tail(ss))

SeqsUpTo(S, n) == UNION {[1..k -> S] : k \in 1..n}

(***************************************************************************)
(* ai.rs - bytes, chars and UTF-8                                          *)
(*                                                                         *)
(* A byte is named by the ASCII character it encodes ("SP" space, "NL"     *)
(* line feed); "C3" "A9" are the two bytes of the character e-acute.       *)
(* A char of the String buffer is an ASCII char, "eacute" (2 bytes in      *)
(* UTF-8) or "REPL", U+FFFD (3 bytes in UTF-8).                            *)
(***************************************************************************)
Utf8Width(c) == IF c = "eacute" THEN 2 ELSE IF c = "REPL" THEN 3 ELSE 1

RECURSIVE ByteLen(_)
ByteLen(s) == IF s = <<>> THEN 0 ELSE Utf8Width(Head(s)) + ByteLen(Tail(s))

\* String::from_utf8_lossy(&chunk): every maximal invalid byte sequence of the
\* chunk becomes one U+FFFD; a chunk is decoded on its own.
RECURSIVE FromUtf8Lossy(_)
FromUtf8Lossy(bytes) ==
    IF bytes = <<>> THEN <<>>
    ELSE IF Head(bytes) = "C3"
         THEN IF Len(bytes) >= 2 /\ bytes[2] = "A9"
              THEN <<"eacute">> \o FromUtf8Lossy(Tail(Tail(bytes)))
              ELSE <<"REPL">> \o FromUtf8Lossy(Tail(bytes))
    ELSE IF Head(bytes) = "A9"
         THEN <<"REPL">> \o FromUtf8Lossy(Tail(bytes))
    ELSE <<Head(bytes)>> \o FromUtf8Lossy(Tail(bytes))

(***************************************************************************)
(* ai.rs:86-109 - one pass of the line loop                                *)
(***************************************************************************)
\* buffer.find('\n'): the char position of the first line feed, 0 if none
RECURSIVE FindNL(_, _)
FindNL(s, k) ==
    IF k > Len(s) THEN 0 ELSE IF s[k] = "NL" THEN k ELSE FindNL(s, k + 1)

\* &s[b..]: the suffix of s starting at byte offset b. Rust panics when b is
\* beyond the end of s or falls inside a multi-byte char.
RECURSIVE SliceFrom(_, _)
SliceFrom(s, b) ==
    IF b = 0 THEN [panic |-> FALSE, rest |-> s]
    ELSE IF s = <<>> THEN [panic |-> TRUE, rest |-> <<>>]
    ELSE IF Utf8Width(Head(s)) > b THEN [panic |-> TRUE, rest |-> <<>>]
    ELSE SliceFrom(Tail(s), b - Utf8Width(Head(s)))

IsWhitespace(c) == c \in {"SP", "CR", "TAB"}

\* str::trim
RECURSIVE TrimStart(_)
TrimStart(s) ==
    IF s # <<>> /\ IsWhitespace(Head(s)) THEN TrimStart(Tail(s)) ELSE s

RECURSIVE TrimEnd(_)
TrimEnd(s) ==
    IF s # <<>> /\ IsWhitespace(s[Len(s)])
    THEN TrimEnd(SubSeq(s, 1, Len(s) - 1)) ELSE s

Trim(s) == TrimEnd(TrimStart(s))

DataPrefix == <<"d", "a", "t", "a", ":", "SP">>
DoneSentinel == <<"[", "D", "O", "N", "E", "]">>

StartsWith(s, p) == Len(s) >= Len(p) /\ SubSeq(s, 1, Len(p)) = p

\* The JSON text of a record is abbreviated: "{" stands for the opening
\*   {"choices":[{"delta":{"content":"     and "}" for the closing   "}}]}
\* so <<"{", c1, .., ck, "}">> is a JSON object whose choices[0].delta.content
\* is the string c1..ck. <<"0">> is valid JSON without that path. Everything
\* else does not parse.
ContentChars == {"h", "w", "eacute", "REPL"}

JsonContent(data) ==
    IF /\ Len(data) >= 2
       /\ data[1] = "{"
       /\ data[Len(data)] = "}"
       /\ \A k \in 2..(Len(data) - 1) : data[k] \in ContentChars
    THEN [some |-> TRUE, content |-> SubSeq(data, 2, Len(data) - 1)]
    ELSE [some |-> FALSE, content |-> <<>>]

AiAnalysis(chunk) == [name |-> "ai-analysis", chunk |-> chunk, status |-> ""]
AiStatus(status) == [name |-> "ai-analysis-status", chunk |-> <<>>, status |-> status]

\* ai.rs:92-109: what one complete line emits
HandleLine(line) ==
    LET trimmed == Trim(line) IN
    IF ~StartsWith(trimmed, DataPrefix) THEN <<>>
    ELSE LET data == SubSeq(trimmed, Len(DataPrefix) + 1, Len(trimmed)) IN
         IF data = DoneSentinel THEN <<>>
         ELSE IF JsonContent(data).some
              THEN <<AiAnalysis(JsonContent(data).content)>>
              ELSE <<>>

\* ai.rs:86-91: the buffer after the line ending at byte offset idx is cut off.
\* buffer.remove(0) first drops the first char of the buffer, and then
\* buffer[idx+1..] is taken of the shortened buffer.
SplitOff(buf, idx) == SliceFrom(Tail(buf), idx + 1)

\* ai.rs:86-110: `while let Some(idx) = buffer.find('\n')`
RECURSIVE DrainLines(_, _)
DrainLines(buf, out) ==
    LET k == FindNL(buf, 1) IN
    IF k = 0 THEN [buffer |-> buf, out |-> out, panic |-> FALSE]
    ELSE LET line == SubSeq(buf, 1, k - 1)
             idx  == ByteLen(line)
             cut  == SplitOff(buf, idx)
         IN  IF cut.panic
             THEN [buffer |-> Tail(buf), out |-> out, panic |-> TRUE]
             ELSE DrainLines(cut.rest, out \o HandleLine(line))

\* ai.rs:79-111: one iteration of `while let Some(item) = stream.next().await`
PushChunk(buf, chunk) == DrainLines(buf \o FromUtf8Lossy(chunk), <<>>)

(***************************************************************************)
(* Response bodies: up to MaxRecords records                               *)
(***************************************************************************)
RecHello  == DataPrefix \o <<"{", "h", "}", "NL">>
RecAccent == DataPrefix \o <<"{", "C3", "A9", "}", "NL">>
RecDone   == DataPrefix \o DoneSentinel \o <<"NL">>
RecBlank  == <<"NL">>

\* a record that its line feed does not follow
RecOpen   == DataPrefix \o <<"{", "w", "}">>

\* besides these: a data line whose JSON has no content string, and a data
\* line whose JSON does not parse
Records == {RecHello, RecAccent, RecDone, RecBlank, RecOpen,
            DataPrefix \o <<"0", "NL">>, DataPrefix \o <<"{", "h", "NL">>}

Streams == {Flatten(rs) : rs \in SeqsUpTo(Records, MaxRecords)}

(***************************************************************************)
(* ai.rs - stream_analysis, with its caller start_ai_analysis              *)
(***************************************************************************)
SseInit ==
    /\ sseStream \in Streams
    /\ ssePos = 0
    /\ buffer = <<>>
    /\ ssePc = "start"
    /\ sseEvents = <<>>

\* ai.rs:56-59: the `start` status, before the request is sent
SseEmitStart ==
    /\ UNCHANGED notSse
    /\ ssePc = "start"
    /\ sseEvents' = Append(sseEvents, AiStatus("start"))
    /\ ssePc' = "connecting"
    /\ UNCHANGED <<sseStream, ssePos, buffer>>

\* ai.rs:61-73: the POST; a send error or a non-2xx status is an Err, which
\* lib.rs:60-65 turns into an `error` status
SseConnect ==
    /\ UNCHANGED notSse
    /\ ssePc = "connecting"
    /\ \E ok \in BOOLEAN :
         IF ok
         THEN /\ ssePc' = "streaming"
              /\ UNCHANGED sseEvents
         ELSE /\ ssePc' = "failed"
              /\ sseEvents' = Append(sseEvents, AiStatus("error"))
    /\ UNCHANGED <<sseStream, ssePos, buffer>>

\* ai.rs:79-111: the network delivers the next n bytes as one chunk
SseRecvChunk ==
    /\ UNCHANGED notSse
    /\ ssePc = "streaming"
    /\ ssePos < Len(sseStream)
    /\ \E n \in 1..(Len(sseStream) - ssePos) :
         LET chunk == SubSeq(sseStream, ssePos + 1, ssePos + n)
             r     == PushChunk(buffer, chunk)
         IN  /\ ssePos' = ssePos + n
             /\ buffer' = r.buffer
             /\ sseEvents' = sseEvents \o r.out
             /\ ssePc' = IF r.panic THEN "panicked" ELSE "streaming"
    /\ UNCHANGED sseStream

\* ai.rs:80: `item.map_err(..)?` - the transport fails mid-stream
SseStreamError ==
    /\ UNCHANGED notSse
    /\ ssePc = "streaming"
    /\ ssePos < Len(sseStream)
    /\ ssePc' = "failed"
    /\ sseEvents' = Append(sseEvents, AiStatus("error"))
    /\ UNCHANGED <<sseStream, ssePos, buffer>>

\* ai.rs:114-119: the stream ended; the `done` status
SseEndOfStream ==
    /\ UNCHANGED notSse
    /\ ssePc = "streaming"
    /\ ssePos = Len(sseStream)
    /\ sseEvents' = Append(sseEvents, AiStatus("done"))
    /\ ssePc' = "done"
    /\ UNCHANGED <<sseStream, ssePos, buffer>>

SseNext ==
    \/ SseEmitStart
    \/ SseConnect
    \/ SseRecvChunk
    \/ SseStreamError
    \/ SseEndOfStream

SseIdle ==
    /\ sseStream = <<>>
    /\ ssePos = 0
    /\ buffer = <<>>
    /\ ssePc = "idle"
    /\ sseEvents = <<>>

(***************************************************************************)
(* spiders/qidian.rs - the Platform-Q adapter, as seen by the flow         *)
(*                                                                         *)
(* A URL is [host, bookId]; bookId "none" is a URL in which the regex      *)
(* book/([0-9]+) finds nothing. A title is a sequence of tokens: a token   *)
(* is one char, or a whole phrase where only the phrase matters.           *)
(***************************************************************************)
Urls == {[host |-> "www", bookId |-> "12345"], [host |-> "www", bookId |-> "none"]}

MobileUrl(bookId) == [host |-> "m", bookId |-> bookId]

WafMarkers == {"Just a moment", "Security checking"}

\* what the browser worker hands back for the metadata page: an error, or a
\* page whose parsed title (qidian.rs:134-150) is `title`
PageTitles ==
    {<<"A">>, <<"A", "/", "B", "\\", "C">>, <<"Just a moment", "...">>, <<"..">>}
BrowserPages ==
    {[ok |-> FALSE, title |-> <<>>]} \cup {[ok |-> TRUE, title |-> t] : t \in PageTitles}
NoPage == [ok |-> FALSE, title |-> <<"-">>]

\* the mobile site: the GET fails, or the page has this text in its first
\* title element (empty when there is none)
MobileSites ==
    {[ok |-> FALSE, h1 |-> <<>>], [ok |-> TRUE, h1 |-> <<>>], [ok |-> TRUE, h1 |-> <<"M">>]}

MetaOk(title, u) == [ok |-> TRUE, title |-> title, url |-> u]
MetaErr == [ok |-> FALSE, title |-> <<>>, url |-> [host |-> "", bookId |-> "none"]]

\* qidian.rs:153: title.contains("Just a moment") || title.contains("Security checking")
ContainsWaf(title) == \E k \in 1..Len(title) : title[k] \in WafMarkers

\* qidian.rs:217-270
fetch_mobile_metadata(u, mobile) ==
    IF u.bookId = "none" THEN MetaErr
    ELSE IF ~mobile.ok THEN MetaErr
    ELSE MetaOk(IF mobile.h1 = <<>> THEN <<"Unknown Title">> ELSE mobile.h1,
                MobileUrl(u.bookId))

\* qidian.rs:107-214
fetch_novel_metadata(page, u, mobile) ==
    IF ~page.ok THEN fetch_mobile_metadata(u, mobile)
    ELSE IF ContainsWaf(page.title) THEN MetaErr
    ELSE MetaOk(page.title, u)

\* the catalog page: the browser worker fails, or the page lists `items` chapters
MaxCatalog == MaxChapters + 1
CatalogPages ==
    {[ok |-> FALSE, items |-> 0]} \cup {[ok |-> TRUE, items |-> n] : n \in 0..MaxCatalog}

NoCatalog == [ok |-> FALSE, items |-> -1]

ListOk(n) == [ok |-> TRUE, list |-> [k \in 1..n |-> k]]
ListErr == [ok |-> FALSE, list |-> <<>>]
NoList == [ok |-> FALSE, list |-> <<"-">>]

\* variant: a catalog page without chapters is not an error
fetch_chapter_list_EmptyOk(page, u) ==
    IF u.bookId = "none" THEN ListErr
    ELSE IF ~page.ok THEN ListErr
    ELSE ListOk(page.items)

\* qidian.rs:273-367: the chapters of the catalog, in page order; no book id,
\* a browser error and an empty catalog are errors
fetch_chapter_list(page, u) ==
    IF u.bookId = "none" THEN ListErr
    ELSE IF ~page.ok THEN ListErr
    ELSE IF page.items = 0 THEN ListErr
    ELSE ListOk(page.items)

(***************************************************************************)
(* spiders/fanqie.rs - the Platform-F adapter: any title or an error       *)
(***************************************************************************)
FanqieMetadataResults(u) == {MetaErr} \cup {MetaOk(t, u) : t \in {<<"A">>, <<"A", "/", "B", "\\", "C">>}}

(***************************************************************************)
(* lib.rs:334-514 - process_novel_download, run by start_download          *)
(* (lib.rs:532-564) or by the loop of scan_and_download_rank               *)
(* (lib.rs:616-641). One action per stretch of code between two awaits.    *)
(***************************************************************************)
Platforms == {"fanqie", "qidian", "other"}

max_retries == 3

Ev(status, about, ord) == [status |-> status, about |-> about, ord |-> ord]
LogLine(kind, ord) == [kind |-> kind, ord |-> ord]

\* variant: only the slash is replaced
SafeTitleSlashOnly(title) ==
    [k \in 1..Len(title) |-> IF title[k] = "/" THEN "_" ELSE title[k]]

\* lib.rs:380: metadata.title.replace("/", "_").replace("\\", "_")
SafeTitle(title) ==
    [k \in 1..Len(title) |-> IF title[k] \in {"/", "\\"} THEN "_" ELSE title[k]]

\* format!("{:02}", n): the decimal digits of n, zero-padded to two
Pad2(n) ==
    IF n < 10 THEN <<0, n>>
    ELSE IF n < 100 THEN <<n \div 10, n % 10>>
    ELSE <<n \div 100, (n \div 10) % 10, n % 10>>

\* variant: the file is named by the 0-based index
ChapterFileNameFromZero(i) == Pad2(i) \o <<".txt">>

\* lib.rs:454: format!("{:02}.txt", i + 1), for the 0-based index i
ChapterFileName(i) == Pad2(i + 1) \o <<".txt">>

\* variant: the existence check never finds the file
FileExistsNever(files, dir, name) == FALSE

\* lib.rs:380: base_dir.join(&safe_title), as the filesystem resolves it. A path
\* is the sequence of its components; the safe title has no separator, so it
\* is one component, or none when it is empty.
NovelDir(base, safe) ==
    IF safe = <<>> \/ safe = <<".">> THEN base
    ELSE IF safe = <<"..">> THEN SubSeq(base, 1, Len(base) - 1)
    ELSE Append(base, safe)

\* lib.rs:458: chapter_file_path.exists()
FileExists(files, dir, name) == \E f \in files : f.dir = dir /\ f.name = name

\* lib.rs:497: fs::write creates the file or replaces its content
WriteFile(files, file) ==
    {f \in files : ~(f.dir = file.dir /\ f.name = file.name)} \cup {file}

\* lib.rs:432-436
Batch(plat, list, count) ==
    IF plat = "fanqie"
    THEN SubSeq(list, 2, IF Len(list) - 1 < count THEN Len(list) ELSE count + 1)
    ELSE SubSeq(list, 1, IF Len(list) < count THEN Len(list) ELSE count)

\* variant: the caller emits a `completed` event after its `error` event
CallerEventsBoth(ok) ==
    IF ok THEN <<Ev("completed", "novel", 0)>>
    ELSE <<Ev("error", "novel", 0), Ev("completed", "novel", 0)>>

\* lib.rs:546-563 and 623-640: what the caller emits and logs for the result
CallerEvents(ok) ==
    <<Ev(IF ok THEN "completed" ELSE "error", "novel", 0)>>

CallerLog(ok) ==
    <<LogLine(IF ok THEN "completed" ELSE "failed", 0)>>

\* variant: the loop never skips a chapter
NextMissingNoCheck(files, dir, n, i) == IF i >= n THEN n ELSE i

\* lib.rs:453-469: the first index from i on whose chapter file is missing
RECURSIVE NextMissing(_, _, _, _)
NextMissing(files, dir, n, i) ==
    IF i >= n THEN n
    ELSE IF FileExists(files, dir, ChapterFileName(i))
         THEN NextMissing(files, dir, n, i + 1)
         ELSE i

\* variant: the flow returns an error when a chapter of the batch has failed
RunLoopFromAllOrError(files, batch, i, skipped, downloaded, evs, log) ==
    LET n == Len(batch)
        j == NextMissing(files, safe_title, n, i)
        nskip == skipped + (j - i)
        skipEvents == IF is_batch THEN <<>>
                      ELSE [k \in 1..(j - i) |-> Ev("skipped", "chapter", i + k)]
        skipLog == [k \in 1..(j - i) |-> LogLine("skipped", i + k)]
    IN  /\ skipped_count' = nskip
        /\ downloaded_count' = downloaded
        /\ chapterIdx' = j
        /\ attempt' = 0
        /\ IF j < n
           THEN /\ flowPc' = "await_download"
                /\ events' = evs \o skipEvents \o
                       (IF is_batch THEN <<>> ELSE <<Ev("running", "chapter", j + 1)>>)
                /\ flowLog' = log \o skipLog
           ELSE /\ flowPc' = "returned"
                /\ events' = evs \o skipEvents \o CallerEvents(downloaded + nskip = n)
                /\ flowLog' = log \o skipLog \o
                       (IF nskip > 0 THEN <<LogLine("summary", 0)>> ELSE <<>>) \o
                       CallerLog(downloaded + nskip = n)

\* lib.rs:453-476 and 504-513: the loop over `batch` runs on from index i,
\* skipping the chapters whose file exists, up to the next download call or to
\* the return; evs and log are the events and log lines up to here
RunLoopFrom(files, batch, i, skipped, downloaded, evs, log) ==
    LET n == Len(batch)
        j == NextMissing(files, safe_title, n, i)
        nskip == skipped + (j - i)
        skipEvents == IF is_batch THEN <<>>
                      ELSE [k \in 1..(j - i) |-> Ev("skipped", "chapter", i + k)]
        skipLog == [k \in 1..(j - i) |-> LogLine("skipped", i + k)]
    IN  /\ skipped_count' = nskip
        /\ downloaded_count' = downloaded
        /\ chapterIdx' = j
        /\ attempt' = 0
        /\ IF j < n
           THEN /\ flowPc' = "await_download"
                /\ events' = evs \o skipEvents \o
                       (IF is_batch THEN <<>> ELSE <<Ev("running", "chapter", j + 1)>>)
                /\ flowLog' = log \o skipLog
           ELSE /\ flowPc' = "returned"
                /\ events' = evs \o skipEvents \o CallerEvents(TRUE)
                /\ flowLog' = log \o skipLog \o
                       (IF nskip > 0 THEN <<LogLine("summary", 0)>> ELSE <<>>) \o
                       CallerLog(TRUE)

PipeInit ==
    /\ platform \in Platforms
    /\ url \in Urls
    /\ chapter_count \in 0..MaxChapters
    /\ is_batch \in BOOLEAN
    /\ mobileSite \in MobileSites
    /\ invocation = 0
    /\ flowPc = "idle"
    /\ atStart = [events |-> 0, log |-> 0, files |-> {}, title |-> <<>>, batch |-> <<>>]
    /\ lastPage = NoPage
    /\ lastCatalog = NoCatalog
    /\ chapters = NoList
    /\ failed = {}
    /\ writeFailed = {}
    /\ metadata_result = MetaErr
    /\ safe_title = <<>>
    /\ chapters_to_download = <<>>
    /\ chapterIdx = 0
    /\ attempt = 0
    /\ downloaded_count = 0
    /\ skipped_count = 0
    /\ downloadCalls = 0
    /\ fsDirs = {}
    /\ fsInfo = {}
    /\ fsFiles = {}
    /\ events = <<>>
    /\ flowLog = <<>>

\* lib.rs:346-352: the command (or the batch loop) invokes the flow; the UI
\* may invoke it once more, with the same inputs, after it returned
FlowStart ==
    /\ UNCHANGED notPipe
    /\ \/ flowPc = "idle"
       \/ flowPc = "returned" /\ invocation = 1
    /\ invocation' = invocation + 1
    /\ flowPc' = "await_metadata"
    /\ events' = Append(events, Ev("running", "metadata", 0))
    /\ flowLog' = Append(flowLog, LogLine("metadata", 0))
    /\ atStart' = [events |-> Len(events), log |-> Len(flowLog), files |-> fsFiles,
                   title |-> safe_title, batch |-> chapters_to_download]
    /\ lastPage' = NoPage
    /\ lastCatalog' = NoCatalog
    /\ chapters' = NoList
    /\ failed' = {}
    /\ writeFailed' = {}
    /\ metadata_result' = MetaErr
    /\ safe_title' = <<>>
    /\ chapters_to_download' = <<>>
    /\ chapterIdx' = 0
    /\ attempt' = 0
    /\ downloaded_count' = 0
    /\ skipped_count' = 0
    /\ downloadCalls' = 0
    /\ UNCHANGED <<flowIn, fsVars>>

\* lib.rs:355-363: the metadata fetch of the platform, with what the browser
\* worker returned
MetadataOutcomes ==
    IF platform = "qidian"
    THEN {[page |-> p, result |-> fetch_novel_metadata(p, url, mobileSite)] :
            p \in BrowserPages}
    ELSE IF platform = "fanqie"
    THEN {[page |-> NoPage, result |-> r] : r \in FanqieMetadataResults(url)}
    ELSE {[page |-> NoPage, result |-> MetaErr]}

\* lib.rs:366-395: the metadata result arrives. On an error: error event and
\* return. Otherwise the novel directory and info.json, then the list fetch.
OnMetadata ==
    /\ UNCHANGED notPipe
    /\ flowPc = "await_metadata"
    /\ \E o \in MetadataOutcomes, mkdirOk \in BOOLEAN, infoOk \in BOOLEAN :
         /\ lastPage' = o.page
         /\ metadata_result' = o.result
         /\ IF ~o.result.ok
            THEN /\ mkdirOk /\ infoOk
                 /\ events' = events \o <<Ev("error", "metadata", 0)>> \o CallerEvents(FALSE)
                 /\ flowLog' = flowLog \o
                        (IF platform \in {"fanqie", "qidian"} THEN <<>>
                         ELSE <<LogLine("unsupported", 0)>>) \o
                        <<LogLine("metadata_failed", 0)>> \o CallerLog(FALSE)
                 /\ flowPc' = "returned"
                 /\ UNCHANGED <<safe_title, fsVars>>
            ELSE LET dir == SafeTitle(o.result.title) IN
                 /\ safe_title' = dir
                 /\ IF dir \in fsDirs
                    THEN mkdirOk /\ UNCHANGED fsDirs
                    ELSE fsDirs' = IF mkdirOk THEN fsDirs \cup {dir} ELSE fsDirs
                 /\ IF dir \in fsDirs'
                    THEN \* lib.rs:388-395
                         /\ fsInfo' = IF infoOk
                                      THEN {f \in fsInfo : f.dir # dir} \cup
                                           {[dir |-> dir, title |-> o.result.title,
                                             url |-> o.result.url]}
                                      ELSE fsInfo
                         /\ events' = Append(events, Ev("running", "list", 0))
                         /\ flowLog' = flowLog
                         /\ flowPc' = "await_list"
                    ELSE \* lib.rs:384: create_dir_all failed
                         /\ infoOk
                         /\ UNCHANGED fsInfo
                         /\ events' = events \o CallerEvents(FALSE)
                         /\ flowLog' = flowLog \o CallerLog(FALSE)
                         /\ flowPc' = "returned"
                 /\ UNCHANGED fsFiles
    /\ UNCHANGED <<flowIn, invocation, atStart, lastCatalog, chapters, failed,
                   writeFailed,
                   chapters_to_download, chapterIdx, attempt,
                   downloaded_count, skipped_count, downloadCalls>>

\* lib.rs:398-429: the chapter list of the platform, with the catalog page it
\* was read from. Platform-F: a failed GET is an error, any list is a result.
ListOutcomes ==
    IF platform = "qidian"
    THEN {[page |-> p, result |-> fetch_chapter_list(p, url)] : p \in CatalogPages}
    ELSE {[page |-> p, result |-> IF p.ok THEN ListOk(p.items) ELSE ListErr] :
            p \in CatalogPages}

\* lib.rs:398-476: the chapter list arrives. On an error: return (Platform-Q
\* emits an error event first). Otherwise the batch is formed and the loop
\* starts.
OnChapterList ==
    /\ UNCHANGED notPipe
    /\ flowPc = "await_list"
    /\ \E o \in ListOutcomes :
         /\ lastCatalog' = o.page
         /\ chapters' = o.result
         /\ IF ~o.result.ok
            THEN /\ events' = events \o
                       (IF platform = "qidian" THEN <<Ev("error", "list", 0)>>
                        ELSE <<>>) \o
                       CallerEvents(FALSE)
                 /\ flowLog' = flowLog \o CallerLog(FALSE)
                 /\ flowPc' = "returned"
                 /\ UNCHANGED <<chapters_to_download, chapterIdx, attempt,
                                downloaded_count, skipped_count>>
            ELSE LET batch == Batch(platform, o.result.list, chapter_count) IN
                 /\ chapters_to_download' = batch
                 /\ RunLoopFrom(fsFiles, batch, 0, 0, 0,
                        events \o <<Ev("running", "prepare", 0)>>,
                        flowLog \o <<LogLine("prepare", 0)>> \o
                            (IF batch = <<>> THEN <<LogLine("empty_batch", 0)>>
                             ELSE <<>>))
    /\ UNCHANGED <<flowIn, invocation, atStart, lastPage, failed, writeFailed,
                   metadata_result,
                   safe_title, downloadCalls, fsVars>>

\* variant: one more attempt than max_retries
RetryOnceMore(outcome, failedSoFar) ==
    outcome = "err" /\ failedSoFar + 1 < max_retries + 1

\* lib.rs:487-503: the `while` loop goes round again after a failed call
\* unless that was attempt number max_retries
RetryAgain(outcome, failedSoFar) ==
    outcome = "err" /\ failedSoFar + 1 < max_retries

\* lib.rs:487-513: a download_chapter call returns. On Ok the chapter file is
\* written (the result of the write is dropped) and the loop moves on; on Err
\* the call is repeated until max_retries attempts were made.
OnDownload ==
    /\ UNCHANGED notPipe
    /\ flowPc = "await_download"
    /\ downloadCalls' = downloadCalls + 1
    /\ \E outcome \in {"err", "ok", "ok_write_failed"} :
         IF RetryAgain(outcome, attempt)
         THEN /\ attempt' = attempt + 1
              /\ UNCHANGED <<flowPc, chapterIdx, downloaded_count, skipped_count,
                             fsFiles, events, flowLog, failed, writeFailed>>
         ELSE /\ failed' = IF outcome = "err" THEN failed \cup {chapterIdx + 1}
                           ELSE failed
              /\ writeFailed' = IF outcome = "ok_write_failed"
                                THEN writeFailed \cup {chapterIdx + 1}
                                ELSE writeFailed
              /\ fsFiles' =
                    IF outcome = "ok"
                    THEN WriteFile(fsFiles,
                             [dir |-> safe_title, name |-> ChapterFileName(chapterIdx),
                              chapter |-> chapters_to_download[chapterIdx + 1],
                              by |-> invocation])
                    ELSE fsFiles
              /\ RunLoopFrom(fsFiles', chapters_to_download, chapterIdx + 1,
                             skipped_count,
                             IF outcome = "err" THEN downloaded_count
                             ELSE downloaded_count + 1,
                             events, flowLog)
    /\ UNCHANGED <<flowIn, invocation, atStart, lastPage, lastCatalog, chapters,
                   metadata_result, safe_title, chapters_to_download, fsDirs, fsInfo>>

PipeNext ==
    \/ FlowStart
    \/ OnMetadata
    \/ OnChapterList
    \/ OnDownload

PipeIdle ==
    /\ platform = "other"
    /\ url = [host |-> "www", bookId |-> "none"]
    /\ chapter_count = 0
    /\ is_batch = FALSE
    /\ mobileSite = [ok |-> FALSE, h1 |-> <<>>]
    /\ invocation = 0
    /\ flowPc = "off"
    /\ atStart = [events |-> 0, log |-> 0, files |-> {}, title |-> <<>>, batch |-> <<>>]
    /\ lastPage = NoPage
    /\ lastCatalog = NoCatalog
    /\ chapters = NoList
    /\ failed = {}
    /\ writeFailed = {}
    /\ metadata_result = MetaErr
    /\ safe_title = <<>>
    /\ chapters_to_download = <<>>
    /\ chapterIdx = 0
    /\ attempt = 0
    /\ downloaded_count = 0
    /\ skipped_count = 0
    /\ downloadCalls = 0
    /\ fsDirs = {}
    /\ fsInfo = {}
    /\ fsFiles = {}
    /\ events = <<>>
    /\ flowLog = <<>>

(***************************************************************************)
(* browser_spider.rs - fetch_via_window                                    *)
(*                                                                         *)
(* start_download (lib.rs:532) and scan_and_download_rank (lib.rs:582)     *)
(* each spawn a detached task on the multi-threaded async runtime; the     *)
(* Platform-Q adapter calls of a task (qidian.rs:45, 112, 300, 378) run    *)
(* one after another, the tasks run in parallel. A window is named by the  *)
(* number of the call that built it; the html of a `spider_response`       *)
(* payload is named by the window that emitted it.                         *)
(* WebviewWindow::close is taken to remove the window at once, and the     *)
(* window builder to refuse a label that is in use.                        *)
(***************************************************************************)
Tasks == 1..MaxTasks

WorkerLabel == "spider_worker"

\* the html of a payload: the page of window `from`, or the empty string
NoHtml == [from |-> 0, empty |-> FALSE]
Html(id, empty) == [from |-> id, empty |-> empty]

NoChannel == [sender |-> "none", value |-> NoHtml, at |-> 0]
NoResult == [kind |-> "none", html |-> NoHtml]
Workers(ws) == {w \in ws : w.label = WorkerLabel}

\* what a call leaves behind when it returns: its channel is dropped
AtReturn(f, t, v) == [f EXCEPT ![t] = v]

InCall(t) == taskPc[t] \in {"close_old", "listen", "build", "wait", "cleanup"}

BrowserInit ==
    /\ taskPc = [t \in Tasks |-> "idle"]
    /\ callsMade = 0
    /\ call = [t \in Tasks |-> 0]
    /\ chan = [t \in Tasks |-> NoChannel]
    /\ result = [t \in Tasks |-> NoResult]
    /\ built = [t \in Tasks |-> 0]
    /\ closedOld = [t \in Tasks |-> 0]
    /\ elapsed = [t \in Tasks |-> 0]
    /\ windows = {}
    /\ listeners = {}

\* lib.rs:532, 582: the UI invokes a download command; its task is spawned
SpawnTask(t) ==
    /\ UNCHANGED notBrowser
    /\ taskPc[t] = "idle"
    /\ taskPc' = [taskPc EXCEPT ![t] = "ready"]
    /\ UNCHANGED <<callsMade, call, chan, result, built, closedOld, elapsed, windows, listeners>>

\* qidian.rs:45, 112, 300, 378: the task's adapter calls fetch_via_window
CallFetch(t) ==
    /\ UNCHANGED notBrowser
    /\ taskPc[t] = "ready"
    /\ callsMade < MaxCalls
    /\ callsMade' = callsMade + 1
    /\ call' = [call EXCEPT ![t] = callsMade + 1]
    /\ taskPc' = [taskPc EXCEPT ![t] = "close_old"]
    /\ result' = [result EXCEPT ![t] = NoResult]
    /\ built' = [built EXCEPT ![t] = 0]
    /\ closedOld' = [closedOld EXCEPT ![t] = 0]
    /\ elapsed' = [elapsed EXCEPT ![t] = 0]
    /\ UNCHANGED <<chan, windows, listeners>>

\* variant: the call does not close the window that has the label
CloseExistingSkipped(t) ==
    /\ UNCHANGED notBrowser
    /\ taskPc[t] = "close_old"
    /\ taskPc' = [taskPc EXCEPT ![t] = "listen"]
    /\ UNCHANGED <<callsMade, call, chan, result, built, closedOld, elapsed, windows, listeners>>

\* browser_spider.rs:15-17: close the window that has the label, if any
CloseExisting(t) ==
    /\ UNCHANGED notBrowser
    /\ taskPc[t] = "close_old"
    /\ windows' = windows \ Workers(windows)
    /\ closedOld' = [closedOld EXCEPT ![t] =
                        IF Workers(windows) = {} THEN 0
                        ELSE (CHOOSE w \in Workers(windows) : TRUE).id]
    /\ taskPc' = [taskPc EXCEPT ![t] = "listen"]
    /\ UNCHANGED <<callsMade, call, chan, result, built, elapsed, listeners>>

\* browser_spider.rs:20-40: the channel, and the listener that holds its sender
Listen(t) ==
    /\ UNCHANGED notBrowser
    /\ taskPc[t] = "listen"
    /\ chan' = [chan EXCEPT ![t] = [sender |-> "held", value |-> NoHtml, at |-> 0]]
    /\ listeners' = listeners \cup {[task |-> t, call |-> call[t]]}
    /\ taskPc' = [taskPc EXCEPT ![t] = "build"]
    /\ UNCHANGED <<callsMade, call, result, built, closedOld, elapsed, windows>>

\* browser_spider.rs:107-113: the URL is parsed and the window built; either
\* may fail, and both failures return at once
Build(t) ==
    /\ UNCHANGED notBrowser
    /\ taskPc[t] = "build"
    /\ \E outcome \in {"url_invalid", "build_failed", "built"} :
         IF outcome = "built" /\ Workers(windows) = {}
         THEN /\ windows' = windows \cup
                    {[label |-> WorkerLabel, id |-> call[t], emitted |-> FALSE]}
              /\ built' = [built EXCEPT ![t] = call[t]]
              /\ taskPc' = [taskPc EXCEPT ![t] = "wait"]
              /\ UNCHANGED <<result, chan, closedOld>>
         ELSE /\ result' = [result EXCEPT ![t] =
                    [kind |-> IF outcome = "url_invalid" THEN "url_invalid"
                              ELSE "build_failed",
                     html |-> NoHtml]]
              /\ taskPc' = [taskPc EXCEPT ![t] = "ready"]
              /\ chan' = AtReturn(chan, t, NoChannel)
              /\ closedOld' = AtReturn(closedOld, t, 0)
              /\ UNCHANGED <<windows, built>>
    /\ UNCHANGED <<callsMade, call, elapsed, listeners>>

\* variant: the callback sends every payload that parses, also when the sender
\* was taken before
DeliverAgain(c, payload, now) ==
    IF payload.valid /\ c.sender \in {"held", "taken"}
    THEN [sender |-> "taken", value |-> payload.html, at |-> now]
    ELSE c

\* browser_spider.rs:32-40: the callback of a listener: a payload that does not
\* parse as {html} is ignored; the first one that does takes the sender out
\* and sends the html through it (`now`: the ticks the call has waited)
Deliver(c, payload, now) ==
    IF payload.valid /\ c.sender = "held"
    THEN [sender |-> "taken", value |-> payload.html, at |-> now]
    ELSE c

\* browser_spider.rs:46-103: the script of window `id` emits `spider_response`
\* with the page's html (the empty string when there is none), once; the page
\* itself may emit something else under that name. Every registered listener
\* is called.
PageEmit(id) ==
    /\ UNCHANGED notBrowser
    /\ \E w \in windows :
         /\ w.id = id
         /\ ~w.emitted
         /\ windows' = (windows \ {w}) \cup {[w EXCEPT !.emitted = TRUE]}
    /\ \E payload \in {[valid |-> TRUE, html |-> Html(id, FALSE)],
                       [valid |-> TRUE, html |-> Html(id, TRUE)],
                       [valid |-> FALSE, html |-> NoHtml]} :
         chan' = [t \in Tasks |->
                    IF [task |-> t, call |-> call[t]] \in listeners
                    THEN Deliver(chan[t], payload, elapsed[t])
                    ELSE chan[t]]
    /\ UNCHANGED <<taskPc, callsMade, call, result, built, closedOld, elapsed, listeners>>

\* browser_spider.rs:116-125: a task that waits in select! and has its result
\* or whose timer is due runs before the clock goes on
Due(t) ==
    /\ taskPc[t] = "wait"
    /\ (chan[t].sender = "taken" \/ elapsed[t] >= TimeoutTicks)

\* browser_spider.rs:121: time passes for the calls that wait in
\* tokio::time::sleep(Duration::from_secs(45))
Tick ==
    /\ UNCHANGED notBrowser
    /\ \E t \in Tasks : taskPc[t] = "wait"
    /\ \A t \in Tasks : ~Due(t)
    /\ elapsed' = [t \in Tasks |->
                     IF taskPc[t] = "wait" THEN elapsed[t] + 1 ELSE elapsed[t]]
    /\ UNCHANGED <<taskPc, callsMade, call, chan, result, built, closedOld,
                   windows, listeners>>

\* browser_spider.rs:117-120: the receiver got the html; unlisten
RecvResult(t) ==
    /\ UNCHANGED notBrowser
    /\ taskPc[t] = "wait"
    /\ chan[t].sender = "taken"
    /\ listeners' = listeners \ {[task |-> t, call |-> call[t]]}
    /\ result' = [result EXCEPT ![t] = [kind |-> "ok", html |-> chan[t].value]]
    /\ taskPc' = [taskPc EXCEPT ![t] = "cleanup"]
    /\ UNCHANGED <<callsMade, call, chan, built, closedOld, elapsed, windows>>

\* variant: select! without the sleep arm
TimeoutNever(t) ==
    /\ UNCHANGED notBrowser
    /\ FALSE
    /\ UNCHANGED browserVars

\* browser_spider.rs:121-124: the 45 seconds have passed; unlisten
Timeout(t) ==
    /\ UNCHANGED notBrowser
    /\ taskPc[t] = "wait"
    /\ elapsed[t] >= TimeoutTicks
    /\ listeners' = listeners \ {[task |-> t, call |-> call[t]]}
    /\ result' = [result EXCEPT ![t] = [kind |-> "timeout", html |-> NoHtml]]
    /\ taskPc' = [taskPc EXCEPT ![t] = "cleanup"]
    /\ UNCHANGED <<callsMade, call, chan, built, closedOld, elapsed, windows>>

\* variant: the call returns without closing the window
CleanupNoClose(t) ==
    /\ UNCHANGED notBrowser
    /\ taskPc[t] = "cleanup"
    /\ taskPc' = [taskPc EXCEPT ![t] = "ready"]
    /\ chan' = AtReturn(chan, t, NoChannel)
    /\ built' = AtReturn(built, t, 0)
    /\ closedOld' = AtReturn(closedOld, t, 0)
    /\ elapsed' = AtReturn(elapsed, t, 0)
    /\ UNCHANGED <<callsMade, call, result, windows, listeners>>

\* browser_spider.rs:127-132: close the window that has the label, and return
Cleanup(t) ==
    /\ UNCHANGED notBrowser
    /\ taskPc[t] = "cleanup"
    /\ windows' = windows \ Workers(windows)
    /\ taskPc' = [taskPc EXCEPT ![t] = "ready"]
    /\ chan' = AtReturn(chan, t, NoChannel)
    /\ built' = AtReturn(built, t, 0)
    /\ closedOld' = AtReturn(closedOld, t, 0)
    /\ elapsed' = AtReturn(elapsed, t, 0)
    /\ UNCHANGED <<callsMade, call, result, listeners>>

BrowserNext ==
    \/ \E t \in Tasks : SpawnTask(t)
    \/ \E t \in Tasks : CallFetch(t)
    \/ \E t \in Tasks : CloseExisting(t)
    \/ \E t \in Tasks : Listen(t)
    \/ \E t \in Tasks : Build(t)
    \/ \E id \in 1..MaxCalls : PageEmit(id)
    \/ Tick
    \/ \E t \in Tasks : RecvResult(t)
    \/ \E t \in Tasks : Timeout(t)
    \/ \E t \in Tasks : Cleanup(t)

BrowserIdle ==
    /\ taskPc = [t \in Tasks |-> "off"]
    /\ callsMade = 0
    /\ call = [t \in Tasks |-> 0]
    /\ chan = [t \in Tasks |-> NoChannel]
    /\ result = [t \in Tasks |-> NoResult]
    /\ built = [t \in Tasks |-> 0]
    /\ closedOld = [t \in Tasks |-> 0]
    /\ elapsed = [t \in Tasks |-> 0]
    /\ windows = {}
    /\ listeners = {}

(***************************************************************************)
(* lib.rs:570-658 - scan_and_download_rank, the batch driver               *)
(*                                                                         *)
(* A rank list is a sequence of distinct novel URLs, named 1..MaxRank, in  *)
(* rank order. The driver awaits process_novel_download (lib.rs:334-514,   *)
(* called with is_batch = true) for one novel after the other; the flow is *)
(* followed through its awaits: the metadata fetch, the list fetch and the *)
(* silent chapter loop. An event is [status, url, by, what]: url 0 for an  *)
(* event that is about no novel, by "driver" or "flow".                    *)
(***************************************************************************)
RankUrls == 1..MaxRank

RankLists ==
    {l \in UNION {[1..n -> RankUrls] : n \in 0..MaxRank} :
        \A i, j \in DOMAIN l : i # j => l[i] # l[j]}

RankOk(links) == [ok |-> TRUE, links |-> links]
RankErr == [ok |-> FALSE, links |-> <<>>]

\* lib.rs:599-603: the rank fetch of the platform
RankOutcomes(plat) ==
    IF plat \in {"fanqie", "qidian"}
    THEN {RankErr} \cup {RankOk(l) : l \in RankLists}
    ELSE {RankErr}

ScanEv(status, u, by, what) == [status |-> status, url |-> u, by |-> by, what |-> what]
ScanLogLine(kind, u) == [kind |-> kind, url |-> u]

Min(a, b) == IF a < b THEN a ELSE b

\* variant: the last `total` links, last first
TakeLast(links, total) == [k \in 1..total |-> links[Len(links) + 1 - k]]

\* lib.rs:606-607: links.into_iter().take(total).collect()
Take(links, total) == SubSeq(links, 1, total)

\* variant: the first failing novel ends the loop
LoopStopsOnError(ok, idx, total) == IF ok THEN idx + 1 ELSE total

\* lib.rs:614-641: neither arm of the match leaves the `for` loop
LoopGoesOn(ok, idx, total) == idx + 1

\* lib.rs:622-640: what the driver logs and emits for the result of the flow
DriverOnResult(ok, u) ==
    [events |-> <<ScanEv(IF ok THEN "completed" ELSE "error", u, "driver", "novel")>>,
     log |-> <<ScanLogLine(IF ok THEN "completed" ELSE "skipped_one", u)>>]

ScanInit ==
    /\ rank_platform \in Platforms
    /\ max_novels \in 0..(MaxRank + 1)
    /\ novel_links_res = RankErr
    /\ target_links = <<>>
    /\ rankIdx = 0
    /\ scanPc = "spawned"
    /\ flowCalls = <<>>
    /\ flowResults = <<>>
    /\ scanEvents = <<>>
    /\ scanLog = <<>>

\* lib.rs:582-603: the task starts: the first event, then the rank fetch
ScanStart ==
    /\ UNCHANGED notScan
    /\ scanPc = "spawned"
    /\ scanEvents' = Append(scanEvents, ScanEv("running", 0, "driver", "scan"))
    /\ scanPc' = "await_rank"
    /\ UNCHANGED <<rank_platform, max_novels, novel_links_res, target_links,
                   rankIdx, flowCalls, flowResults, scanLog>>

\* lib.rs:599-612 and 648-653: the rank list arrives
OnRankList ==
    /\ UNCHANGED notScan
    /\ scanPc = "await_rank"
    /\ \E res \in RankOutcomes(rank_platform) :
         /\ novel_links_res' = res
         /\ IF res.ok
            THEN LET total == Min(Len(res.links), max_novels) IN
                 /\ target_links' = Take(res.links, total)
                 /\ scanEvents' = Append(scanEvents,
                                         ScanEv("running", 0, "driver", "analysed"))
                 /\ scanPc' = "loop"
            ELSE /\ target_links' = <<>>
                 /\ scanEvents' = Append(scanEvents,
                                         ScanEv("error", 0, "driver", "rank"))
                 /\ scanPc' = "rank_failed"
    /\ UNCHANGED <<rank_platform, max_novels, rankIdx, flowCalls, flowResults, scanLog>>

\* lib.rs:614-621 and 346-352: the next novel: the driver's event, then the
\* flow is called, logs and emits its first event and awaits the metadata
NextNovel ==
    /\ UNCHANGED notScan
    /\ scanPc = "loop"
    /\ rankIdx < Len(target_links)
    /\ LET u == target_links[rankIdx + 1] IN
         /\ flowCalls' = Append(flowCalls, u)
         /\ scanEvents' = scanEvents \o
                <<ScanEv("running", u, "driver", "processing"),
                  ScanEv("running", u, "flow", "metadata")>>
         /\ scanLog' = Append(scanLog, ScanLogLine("metadata", u))
    /\ scanPc' = "flow_metadata"
    /\ UNCHANGED <<rank_platform, max_novels, novel_links_res, target_links, rankIdx,
                   flowResults>>

\* lib.rs:622-641: the flow returned: the driver logs and emits, and the loop
\* goes on
FlowReturns(ok, flowEvents, flowLines) ==
    LET u == target_links[rankIdx + 1]
        d == DriverOnResult(ok, u)
    IN  /\ scanEvents' = scanEvents \o flowEvents \o d.events
        /\ scanLog' = scanLog \o flowLines \o d.log
        /\ rankIdx' = LoopGoesOn(ok, rankIdx, Len(target_links))
        /\ flowResults' = Append(flowResults, ok)
        /\ scanPc' = "loop"

\* lib.rs:355-395: the metadata result arrives in the flow. Err: the flow logs,
\* emits an error event and returns. Ok: directory (its creation may fail:
\* return) and info.json, the list event, and the list fetch.
FlowMetadataDone ==
    /\ UNCHANGED notScan
    /\ scanPc = "flow_metadata"
    /\ LET u == target_links[rankIdx + 1] IN
       \E outcome \in {"err", "mkdir_failed", "ok"} :
         CASE outcome = "err" ->
                FlowReturns(FALSE, <<ScanEv("error", u, "flow", "metadata")>>,
                            <<ScanLogLine("metadata_failed", u)>>)
           [] outcome = "mkdir_failed" ->
                FlowReturns(FALSE, <<>>, <<>>)
           [] outcome = "ok" ->
                /\ scanEvents' = Append(scanEvents, ScanEv("running", u, "flow", "list"))
                /\ scanPc' = "flow_list"
                /\ UNCHANGED <<scanLog, rankIdx, flowResults>>
    /\ UNCHANGED <<rank_platform, max_novels, novel_links_res, target_links, flowCalls>>

\* lib.rs:398-447: the chapter list arrives in the flow. Err: return (Platform-Q
\* emits an error event first). Ok: the batch is announced and the loop starts.
FlowListDone ==
    /\ UNCHANGED notScan
    /\ scanPc = "flow_list"
    /\ LET u == target_links[rankIdx + 1] IN
       \E ok \in BOOLEAN :
         IF ok
         THEN /\ scanEvents' = Append(scanEvents, ScanEv("running", u, "flow", "prepare"))
              /\ scanLog' = Append(scanLog, ScanLogLine("prepare", u))
              /\ scanPc' = "flow_chapters"
              /\ UNCHANGED <<rankIdx, flowResults>>
         ELSE FlowReturns(FALSE,
                          IF rank_platform = "qidian"
                          THEN <<ScanEv("error", u, "flow", "list")>> ELSE <<>>,
                          <<>>)
    /\ UNCHANGED <<rank_platform, max_novels, novel_links_res, target_links, flowCalls>>

\* lib.rs:453-513: the chapter loop of the flow, silent with is_batch = true,
\* ends (failed chapters do not fail the flow); skips are logged
FlowChaptersDone ==
    /\ UNCHANGED notScan
    /\ scanPc = "flow_chapters"
    /\ LET u == target_links[rankIdx + 1] IN
       \E skipped \in BOOLEAN :
         FlowReturns(TRUE, <<>>,
                     IF skipped
                     THEN <<ScanLogLine("skipped", u), ScanLogLine("summary", u)>>
                     ELSE <<>>)
    /\ UNCHANGED <<rank_platform, max_novels, novel_links_res, target_links, flowCalls>>

\* lib.rs:643-646: after the loop, the final event
ScanFinish ==
    /\ UNCHANGED notScan
    /\ scanPc = "loop"
    /\ rankIdx >= Len(target_links)
    /\ scanEvents' = Append(scanEvents, ScanEv("completed", 0, "driver", "batch"))
    /\ scanPc' = "done"
    /\ UNCHANGED <<rank_platform, max_novels, novel_links_res, target_links,
                   rankIdx, flowCalls, flowResults, scanLog>>

ScanNext ==
    \/ ScanStart
    \/ OnRankList
    \/ NextNovel
    \/ FlowMetadataDone
    \/ FlowListDone
    \/ FlowChaptersDone
    \/ ScanFinish

ScanIdle ==
    /\ rank_platform = "other"
    /\ max_novels = 0
    /\ novel_links_res = RankErr
    /\ target_links = <<>>
    /\ rankIdx = 0
    /\ scanPc = "off"
    /\ flowCalls = <<>>
    /\ flowResults = <<>>
    /\ scanEvents = <<>>
    /\ scanLog = <<>>

(***************************************************************************)
(* lib.rs - info.json                                                      *)
(*                                                                         *)
(* The text of info.json is a sequence of tokens: an opening brace, the    *)
(* members in the order they stand in the file, a closing brace. A JSON    *)
(* value is a string, an array (named by its text) or an object whose      *)
(* members are strings. A parsed object (serde_json::Map) is a sequence of *)
(* members with distinct keys, in the order the map iterates them.         *)
(* A failed fs::write leaves the file as it was or leaves it empty.        *)
(***************************************************************************)
Str(s) == [kind |-> "str", text |-> s, members |-> {}]
Arr(s) == [kind |-> "arr", text |-> s, members |-> {}]
Obj(ms) == [kind |-> "obj", text |-> "", members |-> ms]

Member(k, v) == [tok |-> "member", key |-> k, val |-> v]
LBrace == [tok |-> "{", key |-> "", val |-> Str("")]
RBrace == [tok |-> "}", key |-> "", val |-> Str("")]

\* the keys that occur, in the order of str::cmp
KeyOrder == <<"ai", "description", "tags", "title", "url", "word_count">>
KeyRank(k) == CHOOSE i \in DOMAIN KeyOrder : KeyOrder[i] = k

HasKey(map, k) == \E i \in DOMAIN map : map[i].key = k

\* variant: an object given for a key that holds an object is merged into it
InsertNested(map, k, v, ordered) ==
    IF HasKey(map, k)
    THEN [i \in DOMAIN map |->
            IF map[i].key # k THEN map[i]
            ELSE IF map[i].val.kind = "obj" /\ v.kind = "obj"
                 THEN Member(k, Obj(map[i].val.members \cup v.members))
                 ELSE Member(k, v)]
    ELSE Append(map, Member(k, v))

\* lib.rs:108 `current_obj.insert(k, v)`: serde_json::Map::insert. The value of
\* a key that is there is replaced where it stands; a new key goes to the end
\* of an insertion-ordered map, and to its place in key order otherwise.
Insert(map, k, v, ordered) ==
    IF HasKey(map, k)
    THEN [i \in DOMAIN map |-> IF map[i].key = k THEN Member(k, v) ELSE map[i]]
    ELSE IF ordered
         THEN Append(map, Member(k, v))
         ELSE SelectSeq(map, LAMBDA m : KeyRank(m.key) < KeyRank(k)) \o
              <<Member(k, v)>> \o
              SelectSeq(map, LAMBDA m : KeyRank(m.key) > KeyRank(k))

\* the members are inserted one after another
RECURSIVE InsertAll(_, _, _)
InsertAll(map, members, ordered) ==
    IF members = <<>> THEN map
    ELSE InsertAll(Insert(map, Head(members).key, Head(members).val, ordered),
                   Tail(members), ordered)

\* lib.rs:103 serde_json::from_str: the text of an object is parsed member by
\* member (a repeated key keeps its last value); any other text is an error
ParseErr == [ok |-> FALSE, map |-> <<>>]
from_str(text, ordered) ==
    IF /\ Len(text) >= 2
       /\ text[1] = LBrace
       /\ text[Len(text)] = RBrace
       /\ \A i \in 2..(Len(text) - 1) : text[i].tok = "member"
    THEN [ok |-> TRUE, map |-> InsertAll(<<>>, SubSeq(text, 2, Len(text) - 1), ordered)]
    ELSE ParseErr

\* lib.rs:114 serde_json::to_string_pretty of a Value: the members as the map
\* iterates them
to_string_pretty(map) == <<LBrace>> \o map \o <<RBrace>>

\* the metadata an adapter returns (qidian.rs:204-210): the title and the url
\* of a novel stay, its tags may differ from fetch to fetch
InfoMetadata ==
    [title : {"A"}, url : {"u"}, tags : {"[]", "[x]"}, word_count : {"1"},
     description : {"d"}]

\* lib.rs:388 serde_json::to_string_pretty(&metadata): the fields of the struct
\* in the order of their declaration
MetadataFields == <<"title", "url", "tags", "word_count", "description">>
MetadataText(md) ==
    <<LBrace,
      Member("title", Str(md.title)),
      Member("url", Str(md.url)),
      Member("tags", Arr(md.tags)),
      Member("word_count", Str(md.word_count)),
      Member("description", Str(md.description)),
      RBrace>>

\* the `metadata` argument of update_novel_metadata: an object of up to
\* MaxPatch members, or a value that is no object
PatchKeys == {"ai", "tags"}
PatchValues == {Str("x"), Obj({<<"a", "1">>}), Obj({<<"b", "2">>})}
PatchObjects ==
    {ms \in UNION {[1..n -> {Member(k, v) : k \in PatchKeys, v \in PatchValues}] :
                        n \in 0..MaxPatch} :
        \A i, j \in DOMAIN ms : i # j => ms[i].key # ms[j].key}
Patches == {[isObject |-> TRUE, map |-> ms] : ms \in PatchObjects} \cup
           {[isObject |-> FALSE, map |-> <<>>]}
NoPatch == [isObject |-> FALSE, map |-> <<>>]

Absent == [exists |-> FALSE, text |-> <<>>]
File(text) == [exists |-> TRUE, text |-> text]

\* fs::write(path, content): what the file is afterwards
WriteOutcomes == {"ok", "failed", "truncated"}
FsWrite(file, content, outcome) ==
    IF outcome = "ok" THEN File(content)
    ELSE IF outcome = "truncated" THEN File(<<>>)
    ELSE file

\* lib.rs:87-119 update_novel_metadata: the result and the file afterwards
update_novel_metadata(file, patch, outcome, ordered) ==
    IF ~file.exists THEN [ok |-> FALSE, file |-> file]
    ELSE LET current_meta == from_str(file.text, ordered) IN
         IF ~current_meta.ok THEN [ok |-> FALSE, file |-> file]
         ELSE LET merged == IF patch.isObject
                            THEN InsertAll(current_meta.map, patch.map, ordered)
                            ELSE current_meta.map
              IN  [ok |-> outcome = "ok",
                   file |-> FsWrite(file, to_string_pretty(merged), outcome)]

NoInfoCall == [op |-> "none", patch |-> NoPatch, ok |-> FALSE, before |-> Absent]

InfoInit ==
    /\ preserve_order \in BOOLEAN
    /\ infoFile = Absent
    /\ infoCall = NoInfoCall

\* lib.rs:388-389: a run of the per-novel flow has its metadata and its novel
\* directory, and writes info.json; the result of the write is dropped
FlowWritesInfo ==
    /\ UNCHANGED notInfo
    /\ \E md \in InfoMetadata, outcome \in WriteOutcomes :
         /\ infoFile' = FsWrite(infoFile, MetadataText(md), outcome)
         /\ infoCall' = [op |-> "flow", patch |-> NoPatch, ok |-> outcome = "ok",
                         before |-> infoFile]
    /\ UNCHANGED preserve_order

\* lib.rs:87-119: the UI calls update_novel_metadata for the novel
UpdateNovelMetadata ==
    /\ UNCHANGED notInfo
    /\ \E patch \in Patches, outcome \in WriteOutcomes :
         LET r == update_novel_metadata(infoFile, patch, outcome, preserve_order) IN
         /\ infoFile' = r.file
         /\ infoCall' = [op |-> "update", patch |-> patch, ok |-> r.ok,
                         before |-> infoFile]
    /\ UNCHANGED preserve_order

InfoNext ==
    \/ FlowWritesInfo
    \/ UpdateNovelMetadata

InfoIdle ==
    /\ preserve_order = FALSE
    /\ infoFile = Absent
    /\ infoCall = NoInfoCall

(***************************************************************************)
(* ai.rs - the request URLs of stream_analysis and fetch_models            *)
(*                                                                         *)
(* A string is a sequence of chars. The words of the paths are abbreviated *)
(* to one char each: "c" stands for `chat`, "o" for `completions`, "m" for *)
(* `models`; "h" is any other text.                                        *)
(***************************************************************************)
ChatCompletions == <<"/", "c", "/", "o">>
Models == <<"/", "m">>

\* str::trim_end_matches('/'): every trailing slash is removed
RECURSIVE TrimEndMatches(_)
TrimEndMatches(s) ==
    IF s # <<>> /\ s[Len(s)] = "/"
    THEN TrimEndMatches(SubSeq(s, 1, Len(s) - 1))
    ELSE s

\* variant: no base counts as ending in the suffix
EndsWithNever(s, suffix) == FALSE

\* str::ends_with
EndsWith(s, suffix) ==
    Len(s) >= Len(suffix) /\ SubSeq(s, Len(s) - Len(suffix) + 1, Len(s)) = suffix

\* str::replace(from, to): every match of `from`, found from left to right
\* without overlap, is replaced
RECURSIVE Replace(_, _, _)
Replace(s, from, to) ==
    IF Len(s) < Len(from) THEN s
    ELSE IF StartsWith(s, from)
         THEN to \o Replace(SubSeq(s, Len(from) + 1, Len(s)), from, to)
         ELSE <<Head(s)>> \o Replace(Tail(s), from, to)

\* ai.rs:49-54: the POST target of stream_analysis
PostTarget(apiBase) ==
    LET base == TrimEndMatches(apiBase) IN
    IF EndsWith(base, ChatCompletions) THEN base ELSE base \o ChatCompletions

\* ai.rs:126-134: the GET target of fetch_models
ModelsTarget(apiBase) ==
    LET base == TrimEndMatches(apiBase) IN
    IF EndsWith(base, ChatCompletions)
    THEN Replace(base, ChatCompletions, Models)
    ELSE base \o Models

\* the api_base values of the configuration: up to MaxPieces pieces
BasePieces == {<<"h">>, <<"/">>, ChatCompletions}
ApiBases == {<<>>} \cup {Flatten(ps) : ps \in SeqsUpTo(BasePieces, MaxPieces)}

NoTarget == [built |-> FALSE, url |-> <<>>]
Target(u) == [built |-> TRUE, url |-> u]

EndpointInit ==
    /\ api_base \in ApiBases
    /\ post_url = NoTarget
    /\ models_url = NoTarget

\* ai.rs:49-54: stream_analysis builds its URL
ResolvePost ==
    /\ UNCHANGED notEndpoint
    /\ ~post_url.built
    /\ post_url' = Target(PostTarget(api_base))
    /\ UNCHANGED <<api_base, models_url>>

\* ai.rs:126-134: fetch_models builds its URL
ResolveModels ==
    /\ UNCHANGED notEndpoint
    /\ ~models_url.built
    /\ models_url' = Target(ModelsTarget(api_base))
    /\ UNCHANGED <<api_base, post_url>>

EndpointNext ==
    \/ ResolvePost
    \/ ResolveModels

EndpointIdle ==
    /\ api_base = <<>>
    /\ post_url = NoTarget
    /\ models_url = NoTarget

(***************************************************************************)
(* qidian.rs - fetch_rank_list                                             *)
(*                                                                         *)
(* A string is a sequence of tokens: "/", "https:", the host names "www"   *)
(* (www.qidian.com) and "m" (m.qidian.com), the path words "book" and      *)
(* "author", and book ids. The rank page is given by the href values of    *)
(* the anchors that the selector matches, in document order.               *)
(***************************************************************************)
BookIds == {"b1", "b2"}

\* the href values that occur on a rank page
Hrefs ==
    {<<>>, <<"/", "author", "/", "b1">>} \cup
    UNION {{<<"/", "/", "www", "/", "book", "/", b>>,
            <<"/", "book", "/", b>>,
            <<"https:", "/", "/", "www", "/", "book", "/", b>>} : b \in BookIds}

RankPages == {<<>>} \cup SeqsUpTo(Hrefs, MaxAnchors)

\* str::contains
Contains(s, part) ==
    \E k \in 0..(Len(s) - Len(part)) : SubSeq(s, k + 1, k + Len(part)) = part

\* qidian.rs:77-88: `full_url`
FullUrl(href, mobile) ==
    IF StartsWith(href, <<"/", "/">>) THEN <<"https:">> \o href
    ELSE IF StartsWith(href, <<"/">>)
         THEN IF mobile THEN <<"https:", "/", "/", "m">> \o href
              ELSE <<"https:", "/", "/", "www">> \o href
    ELSE href

\* variant: a URL seen again takes the place of its earlier occurrence
RECURSIVE fetch_rank_list_KeepLast(_, _, _)
fetch_rank_list_KeepLast(anchors, mobile, links) ==
    IF anchors = <<>> THEN <<>>
    ELSE LET full_url == FullUrl(Head(anchors), mobile)
             rest == fetch_rank_list_KeepLast(Tail(anchors), mobile, links)
         IN  IF Head(anchors) # <<>> /\ Contains(full_url, <<"/", "book", "/">>)
                /\ \A k \in DOMAIN rest : rest[k] # full_url
             THEN <<full_url>> \o rest
             ELSE rest

\* qidian.rs:70-101: the loop over the matching anchors that are left;
\* `links` is the list so far, and `seen` is the set of its elements
RECURSIVE fetch_rank_list(_, _, _)
fetch_rank_list(anchors, mobile, links) ==
    IF anchors = <<>> THEN links
    ELSE LET href == Head(anchors)
             full_url == FullUrl(href, mobile)
             seen == {links[k] : k \in DOMAIN links}
         IN  IF href # <<>> /\ Contains(full_url, <<"/", "book", "/">>)
                /\ full_url \notin seen
             THEN fetch_rank_list(Tail(anchors), mobile, Append(links, full_url))
             ELSE fetch_rank_list(Tail(anchors), mobile, links)

NoLinks == [built |-> FALSE, links |-> <<>>]
Links(l) == [built |-> TRUE, links |-> l]

RankListInit ==
    /\ rankMobile \in BOOLEAN
    /\ rankAnchors \in RankPages
    /\ rankMax \in 0..MaxAnchors
    /\ parsedLinks = NoLinks
    /\ takenLinks = NoLinks

\* qidian.rs:40-101: fetch_rank_list parses the page and returns
ParseRankPage ==
    /\ UNCHANGED notRankList
    /\ ~parsedLinks.built
    /\ parsedLinks' = Links(fetch_rank_list(rankAnchors, rankMobile, <<>>))
    /\ UNCHANGED <<rankMobile, rankAnchors, rankMax, takenLinks>>

\* lib.rs:604-607: the batch driver takes its targets from the list
TakeTargets ==
    /\ UNCHANGED notRankList
    /\ parsedLinks.built
    /\ ~takenLinks.built
    /\ takenLinks' = Links(Take(parsedLinks.links,
                                Min(Len(parsedLinks.links), rankMax)))
    /\ UNCHANGED <<rankMobile, rankAnchors, rankMax, parsedLinks>>

RankListNext ==
    \/ ParseRankPage
    \/ TakeTargets

RankListIdle ==
    /\ rankMobile = FALSE
    /\ rankAnchors = <<>>
    /\ rankMax = 0
    /\ parsedLinks = NoLinks
    /\ takenLinks = NoLinks

(***************************************************************************)
(* browser_spider.rs:46-103 - the initialization script                    *)
(*                                                                         *)
(* Time is counted in seconds from the start of the script. A timer fires  *)
(* in the second in which it is due: the clock does not go on while a      *)
(* timer is due. The page stays loaded, and the event API is there.        *)
(***************************************************************************)
GraceDelay == 2         \* scheduleSend(2000)
FallbackDelay == 5      \* scheduleSend(5000)
HardDelay == 10         \* scheduleSend(10000)

NoProbe == [done |-> FALSE, at |-> 0, signal |-> FALSE]

\* variant: no `sent` flag
emitEvery(wasSent, sofar, now) == [sent |-> TRUE, emits |-> Append(sofar, now)]

\* browser_spider.rs:49-60: emitOnce
emitOnce(wasSent, sofar, now) ==
    IF wasSent THEN [sent |-> wasSent, emits |-> sofar]
    ELSE [sent |-> TRUE, emits |-> Append(sofar, now)]

\* browser_spider.rs:68-90: checkAndSend run at second `now`, with or without
\* a signal element on the page: the timer it schedules
checkAndSend(signal, now) == now + (IF signal THEN GraceDelay ELSE FallbackDelay)

ScriptInit ==
    /\ readyAtStart \in BOOLEAN
    /\ scriptPc = "loaded"
    /\ probeClock = 0
    /\ probe = NoProbe
    /\ timers = {}
    /\ sent = FALSE
    /\ emits = <<>>

\* browser_spider.rs:92-101: the script runs: the probe at once when the
\* document is ready, else a DOMContentLoaded listener; then the hard timer
ScriptStart ==
    /\ UNCHANGED notScript
    /\ scriptPc = "loaded"
    /\ scriptPc' = "running"
    /\ IF readyAtStart
       THEN \E signal \in BOOLEAN :
               /\ probe' = [done |-> TRUE, at |-> 0, signal |-> signal]
               /\ timers' = {checkAndSend(signal, 0), HardDelay}
       ELSE /\ probe' = NoProbe
            /\ timers' = {HardDelay}
    /\ UNCHANGED <<readyAtStart, probeClock, sent, emits>>

\* browser_spider.rs:97: DOMContentLoaded fires (it need not), and the
\* listener, registered with `once`, runs checkAndSend
DomContentLoaded ==
    /\ UNCHANGED notScript
    /\ scriptPc = "running"
    /\ ~readyAtStart
    /\ ~probe.done
    /\ probeClock <= MaxDomDelay
    /\ \E signal \in BOOLEAN :
         /\ probe' = [done |-> TRUE, at |-> probeClock, signal |-> signal]
         /\ timers' = timers \cup {checkAndSend(signal, probeClock)}
    /\ UNCHANGED <<readyAtStart, scriptPc, probeClock, sent, emits>>

\* browser_spider.rs:64: a timer is due and calls emitOnce
TimerFires ==
    /\ UNCHANGED notScript
    /\ scriptPc = "running"
    /\ \E tm \in timers :
         /\ tm <= probeClock
         /\ timers' = timers \ {tm}
         /\ sent' = emitOnce(sent, emits, probeClock).sent
         /\ emits' = emitOnce(sent, emits, probeClock).emits
    /\ UNCHANGED <<readyAtStart, scriptPc, probeClock, probe>>

\* a second passes while no timer is due
ScriptTick ==
    /\ UNCHANGED notScript
    /\ scriptPc = "running"
    /\ \A tm \in timers : tm > probeClock
    /\ probeClock < MaxDomDelay + FallbackDelay
    /\ probeClock' = probeClock + 1
    /\ UNCHANGED <<readyAtStart, scriptPc, probe, timers, sent, emits>>

ScriptNext ==
    \/ ScriptStart
    \/ DomContentLoaded
    \/ TimerFires
    \/ ScriptTick

ScriptIdle ==
    /\ readyAtStart = FALSE
    /\ scriptPc = "off"
    /\ probeClock = 0
    /\ probe = NoProbe
    /\ timers = {}
    /\ sent = FALSE
    /\ emits = <<>>

(***************************************************************************)
(* lib.rs:453-505 and 517-567 - flows started side by side                 *)
(*                                                                         *)
(* Every start_download command spawns its flow as a task of its own       *)
(* (lib.rs:535), and the flow awaits download_chapter between the          *)
(* existence check and the write, so the steps of the flows interleave.    *)
(* Every flow has a batch of MaxChapters chapters; the attempts of one     *)
(* chapter are taken together as one download. A file is named by its      *)
(* directory and its name, and carries the flow that wrote it.             *)
(***************************************************************************)
UiFlows == 1..MaxFlows
NovelDirs == {<<"A">>}

InfoFileName == <<"info.json">>

UiFlow(pc, dir, u, i, after, wrote) ==
    [pc |-> pc, dir |-> dir, url |-> u, i |-> i, after |-> after, wrote |-> wrote]

NoUiFlow == UiFlow("idle", <<>>, [host |-> "", bookId |-> "none"], 0, {}, {})

UiFlowsInit ==
    /\ uiFlow = [f \in UiFlows |-> NoUiFlow]
    /\ sharedFiles = {}

\* lib.rs:535-545 and 379-389: the command spawns the flow for a URL; the
\* metadata fetch succeeds, info.json is written into the directory of the
\* safe title (the result of the write is dropped), the list fetch succeeds
\* and the loop starts
StartFlow(f) ==
    /\ UNCHANGED notUiFlow
    /\ uiFlow[f].pc = "idle"
    /\ \E dir \in NovelDirs, u \in Urls, infoOk \in BOOLEAN :
         /\ uiFlow' = [uiFlow EXCEPT ![f] =
                UiFlow("check", dir, u, 0,
                       {g \in UiFlows : uiFlow[g].pc = "returned"}, {})]
         /\ sharedFiles' =
                IF infoOk
                THEN WriteFile(sharedFiles,
                         [dir |-> dir, name |-> InfoFileName, chapter |-> 0, by |-> f])
                ELSE sharedFiles

\* lib.rs:453-476: the head of the loop: past the last chapter the flow
\* returns; a chapter whose file exists is skipped; else the download is called
CheckExists(f) ==
    /\ UNCHANGED notUiFlow
    /\ uiFlow[f].pc = "check"
    /\ LET me == uiFlow[f] IN
       uiFlow' = [uiFlow EXCEPT ![f] =
            IF me.i >= MaxChapters THEN [me EXCEPT !.pc = "returned"]
            ELSE IF FileExists(sharedFiles, me.dir, ChapterFileName(me.i))
                 THEN [me EXCEPT !.i = me.i + 1]
                 ELSE [me EXCEPT !.pc = "download"]]
    /\ UNCHANGED sharedFiles

\* lib.rs:484-504: the download returns: with a content the file is written,
\* and the loop goes on to the next chapter
DownloadReturns(f) ==
    /\ UNCHANGED notUiFlow
    /\ uiFlow[f].pc = "download"
    /\ LET me == uiFlow[f] IN
       \E ok \in BOOLEAN :
            /\ sharedFiles' =
                IF ok
                THEN WriteFile(sharedFiles,
                         [dir |-> me.dir, name |-> ChapterFileName(me.i),
                          chapter |-> me.i + 1, by |-> f])
                ELSE sharedFiles
            /\ uiFlow' = [uiFlow EXCEPT ![f] =
                   [me EXCEPT !.pc = "check", !.i = me.i + 1,
                              !.wrote = IF ok THEN me.wrote \cup {me.i + 1}
                                        ELSE me.wrote]]

UiFlowsNext ==
    \/ \E f \in UiFlows : StartFlow(f)
    \/ \E f \in UiFlows : CheckExists(f)
    \/ \E f \in UiFlows : DownloadReturns(f)

UiFlowsIdle ==
    /\ uiFlow = [f \in UiFlows |-> [NoUiFlow EXCEPT !.pc = "off"]]
    /\ sharedFiles = {}

(***************************************************************************)
(* Specifications                                                          *)
(***************************************************************************)
InitSse == SseInit /\ PipeIdle /\ BrowserIdle /\ ScanIdle /\ InfoIdle /\ EndpointIdle /\ RankListIdle /\ ScriptIdle /\ UiFlowsIdle
SpecSse == InitSse /\ [][SseNext]_vars

InitPipeline == PipeInit /\ SseIdle /\ BrowserIdle /\ ScanIdle /\ InfoIdle /\ EndpointIdle /\ RankListIdle /\ ScriptIdle /\ UiFlowsIdle
SpecPipeline == InitPipeline /\ [][PipeNext]_vars

InitBrowser == BrowserInit /\ SseIdle /\ PipeIdle /\ ScanIdle /\ InfoIdle /\ EndpointIdle /\ RankListIdle /\ ScriptIdle /\ UiFlowsIdle
SpecBrowser == InitBrowser /\ [][BrowserNext]_vars

InitScan == ScanInit /\ SseIdle /\ PipeIdle /\ BrowserIdle /\ InfoIdle /\ EndpointIdle /\ RankListIdle /\ ScriptIdle /\ UiFlowsIdle
SpecScan == InitScan /\ [][ScanNext]_vars

InitInfo == InfoInit /\ SseIdle /\ PipeIdle /\ BrowserIdle /\ ScanIdle /\ EndpointIdle /\ RankListIdle /\ ScriptIdle /\ UiFlowsIdle
SpecInfo == InitInfo /\ [][InfoNext]_vars

InitEndpoint == EndpointInit /\ SseIdle /\ PipeIdle /\ BrowserIdle /\ ScanIdle /\ InfoIdle /\ RankListIdle /\ ScriptIdle /\ UiFlowsIdle
SpecEndpoint == InitEndpoint /\ [][EndpointNext]_vars

InitRankList == RankListInit /\ PipeIdle /\ BrowserIdle /\ ScanIdle /\ InfoIdle /\ EndpointIdle /\ SseIdle /\ ScriptIdle /\ UiFlowsIdle
SpecRankList == InitRankList /\ [][RankListNext]_vars

InitScript == ScriptInit /\ PipeIdle /\ BrowserIdle /\ ScanIdle /\ InfoIdle /\ EndpointIdle /\ RankListIdle /\ SseIdle /\ UiFlowsIdle
SpecScript == InitScript /\ [][ScriptNext]_vars

InitUiFlows == UiFlowsInit /\ PipeIdle /\ BrowserIdle /\ ScanIdle /\ InfoIdle /\ EndpointIdle /\ RankListIdle /\ ScriptIdle /\ SseIdle
SpecUiFlows == InitUiFlows /\ [][UiFlowsNext]_vars

\* The per-novel flow and the batch driver with fairness: every adapter call
\* that is awaited returns (the HTTP client has a timeout, lib.rs:541 and 590;
\* the browser worker has its ceiling, browser_spider.rs:121), and the task,
\* which the runtime keeps polling, takes its next step. Nothing obliges the
\* UI to invoke a command once more. The loop of the flow is the same for
\* every platform; it is followed here for Platform-F, whose calls have the
\* fewest outcomes, and for one URL.
InitTermination ==
    \/ /\ InitPipeline
       /\ platform = "fanqie"
       /\ url = [host |-> "www", bookId |-> "12345"]
       /\ mobileSite = [ok |-> TRUE, h1 |-> <<"M">>]
    \/ InitScan
TerminationNext == PipeNext \/ ScanNext
TerminationFairness ==
    /\ WF_vars(OnMetadata)
    /\ WF_vars(OnChapterList)
    /\ WF_vars(OnDownload)
    /\ WF_vars(ScanNext)
SpecTermination == InitTermination /\ [][TerminationNext]_vars /\ TerminationFairness

(***************************************************************************)
(* Claims about the SSE relay (checked under SpecSse)                      *)
(***************************************************************************)
AnalysisEvents(evs) == SelectSeq(evs, LAMBDA e : e.name = "ai-analysis")
StatusEvents(evs, st) ==
    SelectSeq(evs, LAMBDA e : e.name = "ai-analysis-status" /\ e.status = st)

\* stream_analysis is over and the transport did not fail
SseRanToEnd == ssePc \in {"done", "panicked"}

\* the `ai-analysis` events of a run that receives the whole body as one chunk
WholeFeedOut(stream) == PushChunk(<<>>, stream).out

\* C1 - SSE robustness: however the network cut the body into chunks, the
\* `ai-analysis` events of the run are those of the run that receives the
\* body as a single chunk.
C1_SplitSameAsWhole ==
    SseRanToEnd => AnalysisEvents(sseEvents) = WholeFeedOut(sseStream)

\* the lines of s that are terminated by a line feed, in order
RECURSIVE CompleteLines(_)
CompleteLines(s) ==
    LET k == FindNL(s, 1) IN
    IF k = 0 THEN <<>>
    ELSE <<SubSeq(s, 1, k - 1)>> \o CompleteLines(SubSeq(s, k + 1, Len(s)))

\* every line of the body is non-empty and terminated by one line feed
SingleNewlineBody(stream) ==
    LET s == FromUtf8Lossy(stream) IN
    /\ s # <<>>
    /\ s[Len(s)] = "NL"
    /\ \A k \in 1..Len(CompleteLines(s)) : CompleteLines(s)[k] # <<>>

\* one `ai-analysis` event per complete data line with a content string
RECURSIVE RelayOf(_)
RelayOf(lines) ==
    IF lines = <<>> THEN <<>> ELSE HandleLine(Head(lines)) \o RelayOf(Tail(lines))

\* C2 - SSE relay: for a body whose lines each end in a single line feed the
\* run emits `start`, then one `ai-analysis` event per complete data line
\* that carries a content string, in line order, then exactly one `done`.
C2_RelayThenDone ==
    (SseRanToEnd /\ SingleNewlineBody(sseStream)) =>
        sseEvents = <<AiStatus("start")>>
                        \o RelayOf(CompleteLines(FromUtf8Lossy(sseStream)))
                        \o <<AiStatus("done")>>

(***************************************************************************)
(* Claims about the per-novel flow (checked under SpecPipeline)            *)
(***************************************************************************)
\* what the current run of the flow emitted and logged
RunEvents == SubSeq(events, atStart.events + 1, Len(events))
RunLog == SubSeq(flowLog, atStart.log + 1, Len(flowLog))

SkippedEvents == SelectSeq(RunEvents, LAMBDA e : e.status = "skipped")
HasEvent(status) == \E k \in 1..Len(RunEvents) : RunEvents[k].status = status

\* the ordinals the run skipped: every skip is logged (lib.rs:459-460)
SkippedOrds ==
    {RunLog[k].ord : k \in {x \in 1..Len(RunLog) : RunLog[x].kind = "skipped"}}

\* the name of the chapter file of ordinal k: two digits, zero-padded
TwoDigitName(k) == <<k \div 10, k % 10, ".txt">>
NamesOf(ords) == {TwoDigitName(k) : k \in ords}

BatchSize == Len(chapters_to_download)

\* the chapter files of the run's novel directory
InNovelDir(files) == {f \in files : f.dir = safe_title}

\* the ordinals of the batch whose file was there when the run started
PreExisting ==
    {k \in 1..BatchSize :
        \E f \in InNovelDir(atStart.files) : f.name = TwoDigitName(k)}

\* names of the files that are there now and were not when the run started
CreatedNames ==
    {f.name : f \in InNovelDir(fsFiles)} \ {f.name : f \in InNovelDir(atStart.files)}

\* names of the files the run wrote (created or replaced)
WrittenNames == {f.name : f \in InNovelDir(fsFiles) \ atStart.files}

\* the run got its chapter list, went through the loop and returned
LoopDone == flowPc = "returned" /\ chapters.ok

\* the metadata fetch of this run went through the browser and the page it got
\* has a challenge title
WafPageSeen ==
    /\ platform = "qidian"
    /\ flowPc \notin {"idle", "await_metadata"}
    /\ lastPage.ok
    /\ ContainsWaf(lastPage.title)

\* C3 - WAF recovery: when the browser-rendered metadata page has a challenge
\* title and the mobile fallback would return the title T, the metadata fetch
\* succeeds with title T and the mobile URL, and info.json holds them.
C3_WafFallsBackToMobile ==
    (WafPageSeen /\ url.bookId # "none" /\ mobileSite.ok /\ mobileSite.h1 # <<>>) =>
        /\ metadata_result = MetaOk(mobileSite.h1, MobileUrl(url.bookId))
        /\ \E f \in fsInfo : /\ f.title = mobileSite.h1
                             /\ f.url = MobileUrl(url.bookId)

\* the first run of the flow ended with a `completed` event, and the sites
\* answer the second run as they answered the first: same title, same batch
FirstRunCompleted ==
    /\ atStart.events > 0
    /\ events[atStart.events].status = "completed"
    /\ atStart.title = safe_title
    /\ atStart.batch = chapters_to_download

\* C4 (as claimed) - Dedup idempotence: a second run with the same inputs,
\* after the first has completed, makes no download call, emits `skipped` for
\* every chapter of the batch whose file exists, and ends with
\* downloaded_count = 0 and skipped_count = the number of existing chapter files.
C4_SecondRunAllSkipped ==
    (invocation = 2 /\ LoopDone /\ FirstRunCompleted) =>
        /\ downloadCalls = 0
        /\ downloaded_count = 0
        /\ skipped_count = Cardinality(InNovelDir(atStart.files))
        /\ \A k \in PreExisting : \E x \in 1..Len(RunEvents) :
               RunEvents[x] = Ev("skipped", "chapter", k)

\* the `skipped` events for the ordinals of S among 1..n, in ascending order
RECURSIVE SkipEventsFor(_, _, _)
SkipEventsFor(S, k, n) ==
    IF k > n THEN <<>>
    ELSE (IF k \in S THEN <<Ev("skipped", "chapter", k)>> ELSE <<>>)
             \o SkipEventsFor(S, k + 1, n)

\* C4 (amended) - a second run never downloads a chapter whose file exists:
\* skipped_count is the number of chapters of the batch whose file exists, the
\* `skipped` events are exactly those chapters in order when is_batch is false
\* and none when it is true, at most max_retries calls are made per missing
\* chapter, and when every chapter of the batch has its file the run makes no
\* download call and ends with downloaded_count = 0, skipped_count = batch size.
C4_SecondRunSkipsExisting ==
    (invocation = 2 /\ LoopDone) =>
        /\ skipped_count = Cardinality(PreExisting)
        /\ SkippedEvents = IF is_batch THEN <<>>
                           ELSE SkipEventsFor(PreExisting, 1, BatchSize)
        /\ downloadCalls <= max_retries * (BatchSize - Cardinality(PreExisting))
        /\ downloaded_count <= BatchSize - Cardinality(PreExisting)
        /\ (PreExisting = 1..BatchSize =>
               /\ downloadCalls = 0
               /\ downloaded_count = 0
               /\ skipped_count = BatchSize)

C4_Witness ==
    /\ invocation = 2
    /\ LoopDone
    /\ BatchSize >= 2
    /\ PreExisting = 1..BatchSize
    /\ ~is_batch
    /\ Len(SkippedEvents) = BatchSize

C6_ResumeWritesOnlyMissing ==
    (LoopDone /\ ~is_batch /\ BatchSize = chapter_count
        /\ failed = {} /\ writeFailed = {}) =>
        /\ WrittenNames = NamesOf((1..chapter_count) \ PreExisting)
        /\ Len(SkippedEvents) = Cardinality(PreExisting)
        /\ atStart.files \subseteq fsFiles

C6_Witness ==
    /\ LoopDone /\ ~is_batch /\ BatchSize = chapter_count
    /\ failed = {} /\ writeFailed = {}
    /\ PreExisting # {}
    /\ WrittenNames # {}

\* the list fetch of this run failed on Platform-Q: no book id in the URL, a
\* browser error, or a catalog page without chapters
CatalogFailed ==
    /\ platform = "qidian"
    /\ flowPc = "returned"
    /\ lastCatalog # NoCatalog
    /\ (url.bookId = "none" \/ ~lastCatalog.ok \/ lastCatalog.items = 0)

\* C7 - Empty catalog is fatal: when the Platform-Q chapter list has no items
\* (or the list fetch fails otherwise) the run emits an `error` event, creates
\* no chapter file, and no `completed` event is emitted for the novel.
C7_EmptyCatalogFatal ==
    CatalogFailed =>
        /\ \E k \in 1..Len(RunEvents) : RunEvents[k] = Ev("error", "list", 0)
        /\ fsFiles = atStart.files
        /\ ~HasEvent("completed")

C7_Witness ==
    /\ CatalogFailed
    /\ url.bookId # "none"
    /\ lastCatalog.ok
    /\ lastCatalog.items = 0


(***************************************************************************)
(* Claims about the browser worker (SpecBrowser)                           *)
(***************************************************************************)
CallsInProgress == {t \in Tasks : InCall(t)}

WindowIds(ws) == {w.id : w \in ws}

\* the call of task t returned
Returned(t) == taskPc[t] = "ready" /\ result[t].kind # "none"

\* C8 - Browser calls are never interleaved: across all the commands the UI
\* started, at most one fetch_via_window invocation is in progress at any
\* time, so the window of an invocation that is still waiting is never closed
\* or replaced by another invocation.
C8_CallsNeverInterleaved ==
    /\ Cardinality(CallsInProgress) <= 1
    /\ \A t \in Tasks : taskPc[t] = "wait" => call[t] \in WindowIds(windows)

\* C9 - The worker spawned by a fetch_via_window call is destroyed before the
\* call returns, on every exit path, and on the success and the timeout path
\* the `spider_response` listener of the call is unregistered before return.
C9_WorkerDestroyedBeforeReturn ==
    \A t \in Tasks :
        Returned(t) =>
            /\ call[t] \notin WindowIds(windows)
            /\ (result[t].kind \in {"ok", "timeout"}
                    => [task |-> t, call |-> call[t]] \notin listeners)

C9_Witness ==
    \E t \in Tasks :
        /\ Returned(t)
        /\ result[t].kind = "ok"
        /\ result[t].html.from = call[t]

\* C10 - Exactly one worker at a time: in every reachable state at most one
\* webview with the label `spider_worker` exists, and a call closes any
\* worker that has the label before it creates its own: after the closing step
\* of a call no worker exists, and a worker is only created when none exists.
C10_ExactlyOneWorker ==
    /\ [](Cardinality({w \in windows : w.label = "spider_worker"}) <= 1)
    /\ [][/\ \A t \in Tasks :
                (taskPc[t] = "close_old" /\ taskPc'[t] = "listen")
                    => {w \in windows' : w.label = "spider_worker"} = {}
          /\ (WindowIds(windows') \ WindowIds(windows) # {}
                    => {w \in windows : w.label = "spider_worker"} = {})]_vars

C10_Witness ==
    \E t \in Tasks :
        /\ closedOld[t] # 0
        /\ taskPc[t] = "wait"
        /\ built[t] = call[t]
        /\ call[t] \in WindowIds(windows)


\* C11 - Every fetch_via_window call that created its window returns within
\* the 45-second ceiling: with the html of the payload (the empty html too)
\* when a valid `spider_response` payload arrives first, otherwise with the
\* timeout error once the 45 seconds have passed, and it never waits longer:
\* the clock of a waiting call never passes the ceiling, and a call whose
\* payload has arrived or whose timer is due can leave the wait at once.
C11_ReturnsWithinCeiling ==
    \A t \in Tasks :
        /\ (taskPc[t] = "wait" =>
                /\ elapsed[t] <= TimeoutTicks
                /\ (chan[t].sender = "taken" \/ elapsed[t] = TimeoutTicks
                        => ENABLED (RecvResult(t) \/ Timeout(t))))
        /\ (taskPc[t] = "cleanup" =>
                /\ result[t].kind \in {"ok", "timeout"}
                /\ ENABLED Cleanup(t))
        /\ (taskPc[t] = "cleanup" /\ result[t].kind = "ok" =>
                /\ chan[t].sender = "taken"
                /\ result[t].html = chan[t].value
                /\ elapsed[t] <= TimeoutTicks)
        /\ (taskPc[t] = "cleanup" /\ result[t].kind = "timeout" =>
                /\ elapsed[t] = TimeoutTicks
                /\ (chan[t].sender = "taken" => chan[t].at = TimeoutTicks))

C11_Witness ==
    /\ \E t \in Tasks :
         /\ Returned(t)
         /\ result[t].kind = "ok"
         /\ result[t].html.empty
    /\ \E t \in Tasks :
         /\ Returned(t)
         /\ result[t].kind = "timeout"


(***************************************************************************)
(* Claims about the batch driver (SpecScan)                                *)
(***************************************************************************)
RankLinks == novel_links_res.links

BatchCompleteEvent == [status |-> "completed", url |-> 0, by |-> "driver", what |-> "batch"]

Count(evs, e) == Cardinality({k \in 1..Len(evs) : evs[k] = e})

\* C12 - The batch driver never aborts on a single-novel failure: for a rank
\* list of length L it invokes the per-novel flow exactly min(L, max_novels)
\* times, one after another in rank order, emits an error event for each
\* failing novel and goes on, and emits the final "batch complete" event
\* exactly once, after the last novel.
C12_BatchNeverAborts ==
    /\ Count(scanEvents, BatchCompleteEvent) = IF scanPc = "done" THEN 1 ELSE 0
    /\ (scanPc = "done" =>
          LET n == IF Len(RankLinks) < max_novels THEN Len(RankLinks) ELSE max_novels IN
          /\ novel_links_res.ok
          /\ flowCalls = [k \in 1..n |-> RankLinks[k]]
          /\ Len(flowResults) = n
          /\ \A k \in 1..n :
                Count(scanEvents,
                      [status |-> IF flowResults[k] THEN "completed" ELSE "error",
                       url |-> RankLinks[k], by |-> "driver", what |-> "novel"]) = 1
          /\ scanEvents[Len(scanEvents)] = BatchCompleteEvent)

C12_Witness ==
    /\ scanPc = "done"
    /\ Len(RankLinks) = 2
    /\ max_novels = 2
    /\ flowResults = <<FALSE, TRUE>>

\* the place of URL u on the rank list
RankOf(u) == CHOOSE k \in DOMAIN RankLinks : RankLinks[k] = u

NovelEvents == SelectSeq(scanEvents, LAMBDA e : e.url # 0)

\* C13 - Batch ordering: the `completed` events of the novels appear in the
\* order of their URLs on the rank list, and no event of a novel is emitted
\* before the terminal event of the novel before it.
C13_BatchOrdering ==
    \A i, j \in 1..Len(NovelEvents) :
        i < j =>
            /\ RankOf(NovelEvents[i].url) <= RankOf(NovelEvents[j].url)
            /\ (NovelEvents[i].by = "driver"
                    /\ NovelEvents[i].status \in {"completed", "error"}
                  => RankOf(NovelEvents[i].url) < RankOf(NovelEvents[j].url))

C13_Witness ==
    /\ scanPc = "done"
    /\ RankLinks = <<2, 1>>
    /\ flowResults = <<TRUE, TRUE>>


(***************************************************************************)
(* Claims about the retry loop (SpecPipeline)                              *)
(***************************************************************************)
\* the chapter files of the current novel directory
FilesHere(files) == {f \in files : f.dir = safe_title}

\* C14 - Per-chapter retry: for each chapter that is not skipped the flow
\* calls download_chapter at most max_retries (3) times and stops at the first
\* success, writing the chapter file at most once; when all attempts failed
\* the chapter is left without a file and the flow goes on to the chapters
\* after it, and the novel still completes.
C14_RetryStep ==
    LET here == ChapterFileName(chapterIdx)
        written == FilesHere(fsFiles') \ FilesHere(fsFiles)
    IN  (flowPc = "await_download" /\ downloadCalls' = downloadCalls + 1) =>
          /\ attempt < max_retries
          /\ ~FileExists(fsFiles, safe_title, here)
          /\ \/ \* a failed attempt that is followed by another one
                /\ chapterIdx' = chapterIdx
                /\ flowPc' = "await_download"
                /\ attempt' = attempt + 1
                /\ attempt' < max_retries
                /\ fsFiles' = fsFiles
             \/ \* the loop leaves this chapter for good
                /\ chapterIdx' > chapterIdx
                /\ attempt' = 0
                /\ \/ \* first success: at most this one file is written
                      /\ downloaded_count' = downloaded_count + 1
                      /\ failed' = failed
                      /\ written \subseteq {f \in FilesHere(fsFiles') : f.name = here}
                      /\ Cardinality(written) <= 1
                   \/ \* attempt number max_retries failed
                      /\ attempt = max_retries - 1
                      /\ downloaded_count' = downloaded_count
                      /\ failed' = failed \cup {chapterIdx + 1}
                      /\ fsFiles' = fsFiles
                /\ \/ /\ flowPc' = "await_download"
                      /\ chapterIdx' < Len(chapters_to_download)
                   \/ /\ flowPc' = "returned"
                      /\ chapterIdx' = Len(chapters_to_download)
                      /\ events'[Len(events')] = Ev("completed", "novel", 0)
                /\ \A k \in (chapterIdx + 1)..(chapterIdx' - 1) :
                      FileExists(fsFiles, safe_title, ChapterFileName(k))

C14_PerChapterRetry == [][C14_RetryStep]_vars

C14_Witness ==
    /\ flowPc = "returned"
    /\ invocation = 1
    /\ failed = {1}
    /\ downloadCalls = max_retries + 1
    /\ \E f \in FilesHere(fsFiles) : f.name = ChapterFileName(1) /\ f.by = 1
    /\ ~FileExists(fsFiles, safe_title, ChapterFileName(0))


\* the log lines that report an error
ErrorLogKinds == {"unsupported", "metadata_failed", "failed"}

ErrorMirrored ==
    /\ \E k \in DOMAIN RunEvents : RunEvents[k].status = "error"
    /\ \E k \in DOMAIN RunLog : RunLog[k].kind \in ErrorLogKinds

\* C15 - All errors are mirrored to the log file and to the UI: when a run of
\* the flow has ended and an error occurred in it (the metadata fetch failed,
\* the platform is not supported, the chapter list failed, or a chapter failed
\* all its attempts), the run left both a log line reporting an error and a
\* `download-progress` event with status `error`.
C15_ErrorsMirrored ==
    flowPc = "returned" =>
        /\ (~metadata_result.ok => ErrorMirrored)
        /\ (metadata_result.ok /\ lastCatalog # NoCatalog /\ ~chapters.ok => ErrorMirrored)
        /\ (failed # {} => ErrorMirrored)


(***************************************************************************)
(* Claims about info.json (SpecInfo)                                       *)
(***************************************************************************)
KeysOf(map) == {map[i].key : i \in DOMAIN map}
ValueOf(map, k) == map[CHOOSE i \in DOMAIN map : map[i].key = k].val

\* the object that the file holds, and the one the last operation found
InfoNow == from_str(infoFile.text, preserve_order)
InfoBefore == from_str(infoCall.before.text, preserve_order)

FieldKeys == {MetadataFields[i] : i \in DOMAIN MetadataFields}

\* C16 - info.json is merged, not replaced, on later fetches: when the flow
\* has written info.json of a novel whose info.json held a key that is none of
\* the metadata fields (update_novel_metadata had added it), the key is still
\* in the file, with its value, beside the refreshed fields.
C16_FlowKeepsAddedKeys ==
    (infoCall.op = "flow" /\ infoCall.ok /\ InfoBefore.ok) =>
        /\ InfoNow.ok
        /\ FieldKeys \subseteq KeysOf(InfoNow.map)
        /\ \A k \in KeysOf(InfoBefore.map) \ FieldKeys :
              /\ k \in KeysOf(InfoNow.map)
              /\ ValueOf(InfoNow.map, k) = ValueOf(InfoBefore.map, k)

\* C17 - update_novel_metadata is a top-level overlay: after a successful
\* call with patch object P on existing object E the file holds P[k] for every
\* key of P (the whole value, nothing merged into it) and E[k] for every other
\* key of E, and no other key; applying the same patch again leaves the file
\* as it is; a call that finds no info.json returns an error and leaves
\* info.json missing.
C17_TopLevelOverlay ==
    infoCall.op = "update" =>
        /\ (~infoCall.before.exists => ~infoCall.ok /\ infoFile = Absent)
        /\ (infoCall.ok /\ infoCall.patch.isObject =>
              LET P == infoCall.patch.map
                  E == InfoBefore.map
              IN  /\ infoCall.before.exists
                  /\ InfoBefore.ok
                  /\ InfoNow.ok
                  /\ KeysOf(InfoNow.map) = KeysOf(E) \cup KeysOf(P)
                  /\ \A k \in KeysOf(P) : ValueOf(InfoNow.map, k) = ValueOf(P, k)
                  /\ \A k \in KeysOf(E) \ KeysOf(P) :
                        ValueOf(InfoNow.map, k) = ValueOf(E, k)
                  /\ update_novel_metadata(infoFile, infoCall.patch, "ok",
                                           preserve_order)
                        = [ok |-> TRUE, file |-> infoFile])

\* a nested object is replaced by another one while an added key stays
C17_Witness ==
    /\ infoCall.op = "update"
    /\ infoCall.ok
    /\ infoCall.patch.map = <<Member("ai", Obj({<<"b", "2">>}))>>
    /\ InfoBefore.ok
    /\ "ai" \in KeysOf(InfoBefore.map)
    /\ ValueOf(InfoBefore.map, "ai") = Obj({<<"a", "1">>})
    /\ ValueOf(InfoBefore.map, "tags") = Str("x")
    /\ infoFile # infoCall.before

\* a call that found no info.json
C17_WitnessMissing ==
    /\ infoCall.op = "update"
    /\ ~infoCall.before.exists
    /\ infoCall.patch.isObject


(***************************************************************************)
(* Claims about the status protocol of the relay (SpecSse)                 *)
(***************************************************************************)
StatusCount(status) ==
    Cardinality({k \in DOMAIN sseEvents : sseEvents[k] = AiStatus(status)})

\* the run of start_ai_analysis is over: the task returned or died
SseRunOver == ssePc \in {"done", "failed", "panicked"}

\* C18 - LLM status protocol: a run emits exactly one `start` status, before
\* connecting and before any chunk, and ends with exactly one terminal status:
\* `done` only if the stream closed cleanly, otherwise `error` (a failed
\* request emits no chunk and no `done`); `done` and `error` never both.
C18_StatusProtocol ==
    /\ StatusCount("start") = IF ssePc = "start" THEN 0 ELSE 1
    /\ (sseEvents # <<>> => sseEvents[1] = AiStatus("start"))
    /\ StatusCount("done") + StatusCount("error") <= 1
    /\ (StatusCount("done") = 1 => ssePc = "done" /\ ssePos = Len(sseStream))
    /\ (ssePc = "failed" /\ ssePos = 0 /\ buffer = <<>> => Len(sseEvents) = 2)
    /\ (SseRunOver =>
          /\ StatusCount("done") + StatusCount("error") = 1
          /\ sseEvents[Len(sseEvents)] \in {AiStatus("done"), AiStatus("error")})


(***************************************************************************)
(* Claims about the request URLs (SpecEndpoint)                            *)
(***************************************************************************)
\* the four forms in which a base x may be configured
FormsOf(x) == {x, x \o <<"/">>, x \o ChatCompletions, x \o ChatCompletions \o <<"/">>}

\* x is a base proper: it has no trailing slash and is not itself a
\* chat-completions path, so that its four forms are four ways to write it
IsBase(x) ==
    /\ (x # <<>> => x[Len(x)] # "/")
    /\ ~(Len(x) >= 4 /\ SubSeq(x, Len(x) - 3, Len(x)) = <<"/", "c", "/", "o">>)

PrefixesOf(s) == {SubSeq(s, 1, k) : k \in 0..Len(s)}

\* C19 - LLM endpoint resolution: for every api_base among "x", "x/",
\* "x/chat/completions" and "x/chat/completions/" the POST target of
\* stream_analysis is x/chat/completions, and resolving a resolved target
\* returns it unchanged.
C19_EndpointResolution ==
    post_url.built =>
        /\ \A x \in PrefixesOf(api_base) :
              IsBase(x) /\ api_base \in FormsOf(x)
                  => post_url.url = x \o <<"/", "c", "/", "o">>
        /\ PostTarget(post_url.url) = post_url.url

C19_Witness ==
    /\ post_url.built
    /\ api_base = <<"h", "/", "c", "/", "o", "/">>
    /\ post_url.url = <<"h", "/", "c", "/", "o">>

\* s without its trailing slashes
RECURSIVE Stripped(_)
Stripped(s) ==
    IF s # <<>> /\ s[Len(s)] = "/" THEN Stripped(SubSeq(s, 1, Len(s) - 1)) ELSE s

\* C20 - fetch_models endpoint: the GET target is <base>/models when the
\* slash-stripped base does not end in /chat/completions; otherwise it is the
\* base with only its trailing /chat/completions replaced by /models, every
\* other part of the base left as it is.
C20_ModelsEndpoint ==
    models_url.built =>
        LET base == Stripped(api_base)
            n == Len(base)
        IN  IF n >= 4 /\ SubSeq(base, n - 3, n) = <<"/", "c", "/", "o">>
            THEN models_url.url = SubSeq(base, 1, n - 4) \o <<"/", "m">>
            ELSE models_url.url = base \o <<"/", "m">>


(***************************************************************************)
(* Claims about the rank list (SpecRankList)                               *)
(***************************************************************************)
\* the anchors of the page whose normalised URL is a book URL
IsBookAnchor(k) ==
    /\ rankAnchors[k] # <<>>
    /\ Contains(FullUrl(rankAnchors[k], rankMobile), <<"/", "book", "/">>)

\* the place of the first anchor of the page that normalises to u
FirstAnchorOf(u) ==
    CHOOSE k \in DOMAIN rankAnchors :
        /\ IsBookAnchor(k)
        /\ FullUrl(rankAnchors[k], rankMobile) = u
        /\ \A j \in 1..(k - 1) : FullUrl(rankAnchors[j], rankMobile) # u

\* C21 - Rank stability: the list returned by fetch_rank_list holds each
\* normalised book URL of the page exactly once, in the document order of the
\* first anchor of each URL, and the batch driver takes the first max_novels
\* entries of it in that order.
C21_RankStability ==
    /\ (parsedLinks.built =>
          LET links == parsedLinks.links IN
          /\ \A i, j \in DOMAIN links : i # j => links[i] # links[j]
          /\ {links[i] : i \in DOMAIN links} =
                {FullUrl(rankAnchors[k], rankMobile) :
                    k \in {a \in DOMAIN rankAnchors : IsBookAnchor(a)}}
          /\ \A i, j \in DOMAIN links :
                i < j => FirstAnchorOf(links[i]) < FirstAnchorOf(links[j]))
    /\ (takenLinks.built =>
          LET links == parsedLinks.links
              n == IF Len(links) < rankMax THEN Len(links) ELSE rankMax
          IN  takenLinks.links = [k \in 1..n |-> links[k]])

\* b2 stands before b1 on the page, b2 stands there again in another form
\* after b1, and the driver takes both
C21_Witness ==
    /\ takenLinks.built
    /\ rankAnchors = <<<<"/", "book", "/", "b2">>,
                       <<"/", "/", "www", "/", "book", "/", "b1">>,
                       <<"https:", "/", "/", "www", "/", "book", "/", "b2">>>>
    /\ ~rankMobile
    /\ Len(takenLinks.links) = 2


(***************************************************************************)
(* Claims about the novel directory (SpecPipeline)                         *)
(***************************************************************************)
\* the title with every slash and every backslash replaced by an underscore
Sanitised(title) ==
    [k \in DOMAIN title |-> IF title[k] = "/" \/ title[k] = "\\" THEN "_" ELSE title[k]]

\* C22 - Title sanitisation: for every metadata title the safe title, which
\* names the novel directory and is what the flow returns, is the title with
\* every `/` and `\` replaced by `_`; it holds neither character, and the
\* novel's files (info.json and the chapter files of the run) are in the
\* directory of that name.
C22_TitleSanitised ==
    /\ (metadata_result.ok =>
          /\ safe_title = Sanitised(metadata_result.title)
          /\ \A k \in DOMAIN safe_title : safe_title[k] \notin {"/", "\\"}
          /\ (flowPc \in {"await_list", "await_download"} => safe_title \in fsDirs)
          /\ \A f \in fsFiles : f.by = invocation => f.dir = safe_title)
    /\ \A f \in fsInfo : f.dir = Sanitised(f.title) /\ f.dir \in fsDirs
    /\ \A f \in fsFiles : f.dir \in fsDirs

C22_Witness ==
    /\ flowPc = "returned"
    /\ metadata_result.ok
    /\ metadata_result.title = <<"A", "/", "B", "\\", "C">>
    /\ safe_title = <<"A", "_", "B", "_", "C">>
    /\ \E f \in fsFiles : f.by = invocation /\ f.dir = <<"A", "_", "B", "_", "C">>
    /\ \E f \in fsInfo : f.dir = <<"A", "_", "B", "_", "C">>


(***************************************************************************)
(* Claims about the line loop of the relay (SpecSse)                       *)
(***************************************************************************)
\* the text received so far, and what of it stands after its last line feed
ReceivedText == FromUtf8Lossy(SubSeq(sseStream, 1, ssePos))

RECURSIVE AfterLastNL(_)
AfterLastNL(s) ==
    LET k == FindNL(s, 1) IN
    IF k = 0 THEN s ELSE AfterLastNL(SubSeq(s, k + 1, Len(s)))

\* no chunk boundary can fall inside a character
AsciiBody == \A k \in DOMAIN sseStream : sseStream[k] \notin {"C3", "A9"}

\* C23 - SSE line splitting loses nothing: the splitting loop never fails,
\* and after each chunk every line of the input so far that ends in a line
\* feed has been handled once, in order and with its content (seen by the
\* chunks relayed for them), while the buffer holds what stands after the
\* last line feed.
C23_SplitLosesNothing ==
    /\ ssePc # "panicked"
    /\ (ssePc \in {"streaming", "done"} =>
          /\ FindNL(buffer, 1) = 0
          /\ (AsciiBody =>
                /\ buffer = AfterLastNL(ReceivedText)
                /\ AnalysisEvents(sseEvents) = RelayOf(CompleteLines(ReceivedText))))


\* the data of a line that begins with `data: ` once it is trimmed
DataOf(line) == SubSeq(Trim(line), Len(DataPrefix) + 1, Len(Trim(line)))

\* the lines that are skipped: no `data: ` line, the sentinel, JSON that does
\* not parse, JSON without a content string
SkippedLine(line) ==
    \/ ~StartsWith(Trim(line), DataPrefix)
    \/ DataOf(line) = DoneSentinel
    \/ ~JsonContent(DataOf(line)).some

\* one chunk for every line that is not skipped, in order
RECURSIVE ChunksOfOthers(_)
ChunksOfOthers(lines) ==
    IF lines = <<>> THEN <<>>
    ELSE (IF SkippedLine(Head(lines)) THEN <<>>
          ELSE <<AiAnalysis(JsonContent(DataOf(Head(lines))).content)>>)
         \o ChunksOfOthers(Tail(lines))

\* C30 - Silently skipped SSE lines: in a run whose body holds a skipped line
\* (the sentinel, a line without `data: `, malformed JSON, JSON without a
\* content string) the line gives no event and no error and does not end the
\* processing: the run ends with `done`, and its chunks are those of the
\* other lines, those after the sentinel included.
C30_SkippedLinesSilent ==
    LET lines == CompleteLines(FromUtf8Lossy(sseStream)) IN
    (SseRanToEnd /\ AsciiBody /\ \E k \in DOMAIN lines : SkippedLine(lines[k])) =>
        /\ ssePc = "done"
        /\ StatusEvents(sseEvents, "error") = <<>>
        /\ AnalysisEvents(sseEvents) = ChunksOfOthers(lines)


(***************************************************************************)
(* Claims about the listener callback (SpecBrowser)                        *)
(***************************************************************************)
\* the listener of the current call of task t is registered
Listening(t) == [task |-> t, call |-> call[t]] \in listeners

\* the windows whose script emits in this step
EmittingNow == {w \in windows : ~w.emitted /\ [w EXCEPT !.emitted = TRUE] \in windows'}

\* C24 - One-shot delivery: within one call the callback hands a payload to
\* the awaiting task at most once. While the sender is held, an event either
\* hands over its html (it is the first that parses) or, not parsing, changes
\* nothing and leaves the sender held; once the sender is taken every later
\* event is ignored, and what the call returns is the html handed over.
C24_OneShotStep ==
    \A t \in Tasks :
        /\ (chan[t].sender = "taken" =>
              \/ chan'[t] = chan[t]
              \/ taskPc[t] \in {"build", "cleanup"} /\ chan'[t] = NoChannel)
        /\ (chan[t].sender = "held" /\ chan'[t] # chan[t] =>
              \/ /\ Listening(t)
                 /\ chan'[t].sender = "taken"
                 /\ \E w \in EmittingNow : chan'[t].value.from = w.id
                 /\ chan'[t].at = elapsed[t]
              \/ taskPc[t] \in {"build", "cleanup"} /\ chan'[t] = NoChannel)
        /\ (taskPc[t] = "wait" /\ taskPc'[t] = "cleanup" /\ result'[t].kind = "ok" =>
              /\ chan[t].sender = "taken"
              /\ result'[t].html = chan[t].value)

C24_OneShotDelivery == [][C24_OneShotStep]_vars

\* the call of task 1 holds the html of its own window, and the window of a
\* later call has emitted since, while task 1 still listens
C24_Witness ==
    /\ taskPc[1] = "wait"
    /\ Listening(1)
    /\ chan[1].sender = "taken"
    /\ chan[1].value.from = call[1]
    /\ \E w \in windows : w.id # call[1] /\ w.emitted


(***************************************************************************)
(* Claims about the initialization script (SpecScript)                     *)
(***************************************************************************)
\* the second at which the script has to emit, as far as it is known: that of
\* the probe's timer (2 seconds after the probe with a signal element, 5
\* without) or that of the hard timer (10), whichever is earlier
EmitDue ==
    LET probeTimer == probe.at + (IF probe.signal THEN 2 ELSE 5) IN
    IF probe.done /\ probeTimer < 10 THEN probeTimer ELSE 10

\* C25 - Injected probe script: per page load the script emits
\* `spider_response` exactly once, at the earliest of its timers: 2 seconds
\* after the probe if a signal element is there, 5 seconds after it otherwise,
\* and in all cases no later than 10 seconds after the script started, also
\* when DOMContentLoaded never fires; a timer that fires after the emission
\* emits nothing.
C25_ProbeEmitsOnce ==
    /\ Len(emits) <= 1
    /\ (sent <=> Len(emits) = 1)
    /\ (sent => emits[1] = EmitDue)
    /\ (scriptPc = "running" /\ ~sent =>
          /\ probeClock <= EmitDue
          /\ EmitDue \in timers
          /\ (probeClock = EmitDue => ENABLED TimerFires))

\* DOMContentLoaded came late: the hard timer emitted, and the probe's timer
\* fired after it
C25_Witness ==
    /\ emits = <<10>>
    /\ probe.done
    /\ probe.at = 9
    /\ probe.signal
    /\ timers = {}
    /\ probeClock > 10

\* DOMContentLoaded never fired
C25_WitnessNoDom ==
    /\ emits = <<10>>
    /\ ~probe.done
    /\ ~readyAtStart
    /\ probeClock > 10


(***************************************************************************)
(* Claims about the states of the per-novel flow (SpecPipeline)            *)
(***************************************************************************)
\* the stage an event belongs to
StageOf(e) ==
    CASE e.about = "metadata" -> 1
      [] e.about = "list" -> 2
      [] e.about = "prepare" -> 3
      [] e.about = "chapter" -> 4
      [] OTHER -> 5

\* the chapter files the running invocation wrote
WrittenByRun == {f \in fsFiles : f.by = invocation /\ f \notin atStart.files}

\* one step of a flow: its position moves one stage on, stays in the chapter
\* loop, or goes to the return; after the return only a new invocation starts
C26_FlowStep ==
    /\ flowPc' # flowPc =>
          \/ flowPc \in {"idle", "returned"} /\ flowPc' = "await_metadata"
          \/ flowPc = "await_metadata" /\ flowPc' \in {"await_list", "returned"}
          \/ flowPc = "await_list" /\ flowPc' \in {"await_download", "returned"}
          \/ flowPc = "await_download" /\ flowPc' = "returned"
    /\ (flowPc = "returned" /\ invocation' = invocation =>
          /\ fsFiles' = fsFiles
          /\ fsInfo' = fsInfo
          /\ downloadCalls' = downloadCalls
          /\ events' = events)
    /\ (downloadCalls' > downloadCalls \/ fsFiles' # fsFiles =>
          /\ flowPc = "await_download"
          /\ metadata_result.ok
          /\ chapters.ok
          /\ ~HasEvent("error"))

C26_FlowStages ==
    /\ \A i, j \in 1..Len(RunEvents) :
          i < j => StageOf(RunEvents[i]) <= StageOf(RunEvents[j])
    /\ (flowPc = "await_list" => metadata_result.ok)
    /\ (flowPc = "await_download" \/ downloadCalls > 0 \/ WrittenByRun # {} =>
          metadata_result.ok /\ chapters.ok)
    /\ (HasEvent("error") =>
          /\ flowPc = "returned"
          /\ downloadCalls = 0
          /\ WrittenByRun = {}
          /\ ~HasEvent("completed"))
    /\ (HasEvent("completed") =>
          /\ flowPc = "returned"
          /\ metadata_result.ok
          /\ chapters.ok)
    /\ (flowPc = "returned" => HasEvent("completed") \/ HasEvent("error"))

\* C26 - Per-novel state machine: a flow moves only along start -> metadata ->
\* list -> downloading -> complete, or to error; no chapter is downloaded and
\* no chapter file is written before the metadata fetch and the chapter-list
\* fetch both succeeded, nor after the flow entered error; and one flow never
\* emits both a `completed` and an `error` event.
C26_PerNovelStateMachine == []C26_FlowStages /\ [][C26_FlowStep]_vars

\* a flow that went through all stages and completed, having written a file
C26_Witness ==
    /\ flowPc = "returned"
    /\ HasEvent("completed")
    /\ downloadCalls > 1
    /\ WrittenByRun # {}

\* a flow that entered error from the list stage, after info.json was written
C26_WitnessError ==
    /\ flowPc = "returned"
    /\ HasEvent("error")
    /\ metadata_result.ok
    /\ ~chapters.ok
    /\ \E f \in fsInfo : f.dir = safe_title


(***************************************************************************)
(* Claims about flows running side by side (SpecUiFlows)                   *)
(***************************************************************************)
\* a step leaves every chapter file that exists as it is
C27_FilesKept ==
    \A file \in sharedFiles : file.chapter > 0 => file \in sharedFiles'

\* C27 - A chapter file is never mutated and only one task writes any given
\* path: once the file of a novel directory and an ordinal exists, no flow
\* writes to that path again, for every interleaving of the flows, two flows
\* for the same novel included.
C27_WrittenOnce == [][C27_FilesKept]_vars


(***************************************************************************)
(* Claims about the end of the chapter loop (SpecPipeline)                 *)
(***************************************************************************)
\* the flow went through the chapter loop and returned
LoopEnded == flowPc = "returned" /\ metadata_result.ok /\ chapters.ok

HasLogLine(kind) == \E k \in 1..Len(RunLog) : RunLog[k].kind = kind

\* C28 - At the end of every flow that reaches the chapter loop a summary
\* with the downloaded count and the skipped count is emitted, for every
\* combination of the counts, skipped_count = 0 included, and the flow
\* returns Ok.
C28_SummaryAlways ==
    LoopEnded =>
        /\ HasLogLine("summary")
        /\ HasEvent("completed")


(***************************************************************************)
(* Claims about filesystem errors in the flow (SpecPipeline)               *)
(***************************************************************************)
\* the flow has its safe title, and the novel directory is missing: creating
\* it failed
MkdirFailed == metadata_result.ok /\ safe_title \notin fsDirs

\* the directory is there and holds no info.json: writing it failed
InfoWriteFailed ==
    /\ metadata_result.ok
    /\ safe_title \in fsDirs
    /\ ~\E f \in fsInfo : f.dir = safe_title

\* C29 - Filesystem errors in the pipeline are surfaced: when creating the
\* novel directory, writing info.json or writing a chapter file fails, the
\* flow ends with an error event, and a chapter whose file was not written is
\* not counted as downloaded.
C29_FsErrorsSurfaced ==
    /\ (flowPc = "returned" /\ (MkdirFailed \/ InfoWriteFailed \/ writeFailed # {}) =>
          HasEvent("error"))
    /\ (flowPc \in {"await_download", "returned"} /\ chapters.ok =>
          downloaded_count = Cardinality(WrittenByRun))


(***************************************************************************)
(* Claims about the isolation of the browser calls (SpecBrowser)           *)
(***************************************************************************)
\* C31 - Worker isolation across calls: the html a fetch_via_window call
\* returns is a payload emitted by the worker window this call built; an
\* event emitted by the window of an earlier or a concurrent call is never
\* delivered as the result of this call.
C31_WorkerIsolation ==
    \A t \in Tasks :
        result[t].kind = "ok" => result[t].html.from = call[t]


\* C32 - No listener leak: whenever no fetch_via_window call is in progress,
\* no `spider_response` listener of an earlier call is still registered,
\* whatever the outcome of the earlier calls was (success, timeout, invalid
\* URL, window creation failure).
C32_NoListenerLeak ==
    (\A t \in Tasks : ~InCall(t)) => listeners = {}


(***************************************************************************)
(* Claims about where the flow writes (SpecPipeline)                       *)
(***************************************************************************)
\* the base directory D of the command
BaseDir == <<"home", "D">>

ProperChildOfBase(path) ==
    /\ Len(path) = Len(BaseDir) + 1
    /\ SubSeq(path, 1, Len(BaseDir)) = BaseDir

\* C33 - All files a flow writes stay inside its own novel directory strictly
\* below the base directory D: for every title an adapter can return, the
\* empty string, "." and ".." included, info.json and the chapter files are
\* written to a proper child of D, never to D itself or outside D.
C33_WritesBelowBase ==
    /\ \A f \in fsInfo : ProperChildOfBase(NovelDir(BaseDir, f.dir))
    /\ \A f \in fsFiles : ProperChildOfBase(NovelDir(BaseDir, f.dir))


(***************************************************************************)
(* Claims about runs into the same novel directory (SpecUiFlows)           *)
(***************************************************************************)
\* flow f started after flow g had returned, into the directory of g
LaterRun(f, g) == g \in uiFlow[f].after /\ uiFlow[f].dir = uiFlow[g].dir

InfoFiles(files, dir) == {file \in files : file.dir = dir /\ file.name = InfoFileName}

\* flow f starts in this step
Starts(f) == uiFlow[f].pc = "idle" /\ uiFlow'[f].pc = "check"

\* the later run writes no ordinal that the earlier run wrote
C34_SkipsEarlierFiles ==
    \A f, g \in UiFlows :
        LaterRun(f, g) => uiFlow[f].wrote \cap uiFlow[g].wrote = {}

\* a run that starts leaves its own info.json in the directory
C34_InfoAlwaysOverwritten ==
    \A f \in UiFlows :
        Starts(f) =>
            \E file \in InfoFiles(sharedFiles', uiFlow'[f].dir) : file.by = f

\* a run that starts leaves its own info.json in the directory, or the
\* directory's info.json as it was when the write failed
C34_InfoOverwrittenOrKept ==
    \A f \in UiFlows :
        Starts(f) =>
            \/ InfoFiles(sharedFiles', uiFlow'[f].dir) =
                  {[dir |-> uiFlow'[f].dir, name |-> InfoFileName, chapter |-> 0, by |-> f]}
            \/ sharedFiles' = sharedFiles

C35_CompletedDespiteFailures ==
    flowPc = "returned" =>
        /\ (metadata_result.ok /\ safe_title \in fsDirs /\ chapters.ok =>
              /\ HasEvent("completed")
              /\ ~HasEvent("error")
              /\ HasLogLine("completed"))
        /\ (HasEvent("completed") =>
              /\ failed \subseteq 1..Len(chapters_to_download)
              /\ \A f \in WrittenByRun, k \in failed : f.name # ChapterFileName(k - 1))

\* every chapter of a batch of two failed all its attempts
C35_Witness ==
    /\ flowPc = "returned"
    /\ HasEvent("completed")
    /\ Len(chapters_to_download) = 2
    /\ failed = {1, 2}
    /\ downloadCalls = 2 * max_retries
    /\ WrittenByRun = {}
    /\ fsFiles = {}

\* the batch is empty
C35_WitnessEmptyBatch ==
    /\ flowPc = "returned"
    /\ HasEvent("completed")
    /\ chapters.ok
    /\ chapters_to_download = <<>>
    /\ fsFiles = {}


(***************************************************************************)
(* Claims about termination (SpecTermination)                              *)
(***************************************************************************)
\* the flow is in one of its terminal states: `completed` was emitted, or
\* `error`, and not both
FlowTerminal ==
    /\ flowPc = "returned"
    /\ HasEvent("completed") # HasEvent("error")

\* the calls of download_chapter are bounded by 3 for each chapter of the batch
C36_CallsBounded ==
    /\ downloadCalls <= max_retries * Len(chapters_to_download)
    /\ (flowPc = "returned" => FlowTerminal)

\* C36 - Every per-novel flow terminates: given that each adapter call
\* returns, a flow with a batch of N chapters makes at most 3*N download calls
\* and then reaches exactly one of the terminal states complete or error; a
\* batch over k novels likewise always reaches its final event.
C36_FlowsTerminate ==
    /\ []C36_CallsBounded
    /\ (flowPc = "await_metadata" ~> FlowTerminal)
    /\ (scanPc = "loop" ~>
          (scanPc = "done" /\ Count(scanEvents, BatchCompleteEvent) = 1))

\* a flow that made all 3*N calls of a batch of two and reached `completed`
C36_Witness ==
    /\ FlowTerminal
    /\ Len(chapters_to_download) = 2
    /\ downloadCalls = max_retries * 2

\* a batch over two novels that reached its final event
C36_WitnessBatch ==
    /\ scanPc = "done"
    /\ Len(target_links) = 2
    /\ Len(flowResults) = 2


(***************************************************************************)
(* Claims about the end of the response stream (SpecSse)                   *)
(***************************************************************************)
\* the body ends in a record that no line feed follows
OpenEnded(stream) == AfterLastNL(FromUtf8Lossy(stream)) # <<>>

\* C37 - Only complete lines are relayed: when the response stream ends,
\* what is left in the buffer after the last line feed (a final `data: `
\* record without its line feed) is discarded without a chunk, and `done` is
\* still emitted.
C37_OnlyCompleteLines ==
    (SseRanToEnd /\ AsciiBody /\ OpenEnded(sseStream)) =>
        /\ ssePc = "done"
        /\ StatusEvents(sseEvents, "done") = <<AiStatus("done")>>
        /\ AnalysisEvents(sseEvents) = RelayOf(CompleteLines(FromUtf8Lossy(sseStream)))

=============================================================================
